---- MODULE Spec2Model ----
(***************************************************************************)
(* Character progression of bobbyapp: the add_experience service           *)
(* (src/app/services/character_progression.py), the configuration tables   *)
(* it reads (src/app/utils/character_defaults.py) and the HTTP handlers    *)
(* that call it (src/app/api/character_progression.py), against a          *)
(* characters table that several requests read and update.                 *)
(*                                                                         *)
(* Strings the code computes on (ability ids, class names) are tuples of   *)
(* one-character strings, so that lower(), replace(), split(), "in" and    *)
(* capitalize() are computed as Python computes them.                      *)
(***************************************************************************)
EXTENDS Integers, Sequences, FiniteSets, TLC

(***************************************************************************)
(* Configuration tables (character_defaults.py).                           *)
(***************************************************************************)
\* get_level_xp_requirements(): level -> cumulative XP needed to reach it.
LEVEL_XP_REQUIREMENTS ==
    1 :> 0 @@ 2 :> 1000 @@ 3 :> 3000 @@ 4 :> 6000 @@
    5 :> 10000 @@ 6 :> 15000 @@ 7 :> 21000 @@ 8 :> 28000 @@
    9 :> 36000 @@ 10 :> 45000 @@ 11 :> 55000 @@ 12 :> 66000 @@
    13 :> 78000 @@ 14 :> 91000 @@ 15 :> 105000 @@ 16 :> 120000 @@
    17 :> 136000 @@ 18 :> 153000 @@ 19 :> 171000 @@ 20 :> 190000

\* The class names that key get_class_level_bonuses().
warrior == <<"w","a","r","r","i","o","r">>
wizard == <<"w","i","z","a","r","d">>
rogue == <<"r","o","g","u","e">>
cleric == <<"c","l","e","r","i","c">>
bard == <<"b","a","r","d">>
ranger == <<"r","a","n","g","e","r">>
paladin == <<"p","a","l","a","d","i","n">>
druid == <<"d","r","u","i","d">>
monk == <<"m","o","n","k">>
sorcerer == <<"s","o","r","c","e","r","e","r">>

\* get_class_level_bonuses(): class -> level -> {"abilities": [...], "stats": {...}}.
CLASS_LEVEL_BONUSES ==
    warrior :> (
      2 :> [abilities |-> <<<<"I","m","p","r","o","v","e","d"," ","C","o","m","b","a","t"," ","T","e","c","h","n","i","q","u","e","s">>>>,
             stats |-> "strength" :> 1] @@
      3 :> [abilities |-> <<<<"B","a","t","t","l","e"," ","C","r","y">>>>,
             stats |-> "constitution" :> 1] @@
      4 :> [abilities |-> <<<<"S","e","c","o","n","d"," ","W","i","n","d">>>>,
             stats |-> "strength" :> 1] @@
      5 :> [abilities |-> <<<<"E","x","t","r","a"," ","A","t","t","a","c","k">>>>,
             stats |-> "dexterity" :> 1 @@ "strength" :> 1] @@
      6 :> [abilities |-> <<<<"D","e","f","e","n","s","i","v","e"," ","S","t","a","n","c","e">>>>,
             stats |-> "constitution" :> 1] @@
      7 :> [abilities |-> <<<<"I","n","t","i","m","i","d","a","t","i","n","g"," ","P","r","e","s","e","n","c","e">>>>,
             stats |-> "strength" :> 1] @@
      8 :> [abilities |-> <<<<"I","m","p","r","o","v","e","d"," ","C","r","i","t","i","c","a","l">>>>,
             stats |-> "strength" :> 1 @@ "constitution" :> 1] @@
      9 :> [abilities |-> <<<<"C","l","e","a","v","e">>>>,
             stats |-> "strength" :> 1] @@
      10 :> [abilities |-> <<<<"C","h","a","m","p","i","o","n","'","s"," ","M","i","g","h","t">>>>,
             stats |-> "strength" :> 2 @@ "constitution" :> 1]) @@
    wizard :> (
      2 :> [abilities |-> <<<<"A","r","c","a","n","e"," ","R","e","c","o","v","e","r","y">>>>,
             stats |-> "intelligence" :> 1] @@
      3 :> [abilities |-> <<<<"S","p","e","l","l"," ","S","c","h","o","o","l"," ","S","p","e","c","i","a","l","i","z","a","t","i","o","n">>>>,
             stats |-> "intelligence" :> 1] @@
      4 :> [abilities |-> <<<<"C","a","n","t","r","i","p"," ","M","a","s","t","e","r","y">>>>,
             stats |-> "intelligence" :> 1] @@
      5 :> [abilities |-> <<<<"3","r","d"," ","L","e","v","e","l"," ","S","p","e","l","l","s">>>>,
             stats |-> "intelligence" :> 1 @@ "wisdom" :> 1] @@
      6 :> [abilities |-> <<<<"A","r","c","a","n","e"," ","T","r","a","d","i","t","i","o","n"," ","F","e","a","t","u","r","e">>>>,
             stats |-> "intelligence" :> 1] @@
      7 :> [abilities |-> <<<<"4","t","h"," ","L","e","v","e","l"," ","S","p","e","l","l","s">>>>,
             stats |-> "intelligence" :> 1] @@
      8 :> [abilities |-> <<<<"A","b","i","l","i","t","y"," ","S","c","o","r","e"," ","I","m","p","r","o","v","e","m","e","n","t">>>>,
             stats |-> "intelligence" :> 2] @@
      9 :> [abilities |-> <<<<"5","t","h"," ","L","e","v","e","l"," ","S","p","e","l","l","s">>>>,
             stats |-> "intelligence" :> 1] @@
      10 :> [abilities |-> <<<<"A","r","c","a","n","e"," ","M","a","s","t","e","r","y">>>>,
             stats |-> "intelligence" :> 1 @@ "wisdom" :> 1]) @@
    rogue :> (
      2 :> [abilities |-> <<<<"C","u","n","n","i","n","g"," ","A","c","t","i","o","n">>>>,
             stats |-> "dexterity" :> 1] @@
      3 :> [abilities |-> <<<<"R","o","g","u","i","s","h"," ","A","r","c","h","e","t","y","p","e">>>>,
             stats |-> "dexterity" :> 1] @@
      4 :> [abilities |-> <<<<"U","n","c","a","n","n","y"," ","D","o","d","g","e">>>>,
             stats |-> "dexterity" :> 1] @@
      5 :> [abilities |-> <<<<"E","v","a","s","i","o","n">>>>,
             stats |-> "dexterity" :> 1] @@
      6 :> [abilities |-> <<<<"E","x","p","e","r","t","i","s","e">>>>,
             stats |-> "dexterity" :> 1] @@
      7 :> [abilities |-> <<<<"A","d","v","a","n","c","e","d"," ","S","n","e","a","k"," ","A","t","t","a","c","k">>>>,
             stats |-> "dexterity" :> 1] @@
      8 :> [abilities |-> <<<<"A","b","i","l","i","t","y"," ","S","c","o","r","e"," ","I","m","p","r","o","v","e","m","e","n","t">>>>,
             stats |-> "dexterity" :> 1 @@ "charisma" :> 1] @@
      9 :> [abilities |-> <<<<"I","m","p","r","o","v","e","d"," ","R","e","f","l","e","x","e","s">>>>,
             stats |-> "dexterity" :> 1] @@
      10 :> [abilities |-> <<<<"S","h","a","d","o","w"," ","M","a","s","t","e","r">>>>,
             stats |-> "dexterity" :> 2]) @@
    cleric :> (
      2 :> [abilities |-> <<<<"C","h","a","n","n","e","l"," ","D","i","v","i","n","i","t","y">>>>,
             stats |-> "wisdom" :> 1] @@
      3 :> [abilities |-> <<<<"2","n","d"," ","L","e","v","e","l"," ","S","p","e","l","l","s">>>>,
             stats |-> "wisdom" :> 1] @@
      4 :> [abilities |-> <<<<"D","i","v","i","n","e"," ","D","o","m","a","i","n"," ","F","e","a","t","u","r","e">>>>,
             stats |-> "wisdom" :> 1] @@
      5 :> [abilities |-> <<<<"3","r","d"," ","L","e","v","e","l"," ","S","p","e","l","l","s">>>>,
             stats |-> "wisdom" :> 1 @@ "charisma" :> 1] @@
      6 :> [abilities |-> <<<<"I","m","p","r","o","v","e","d"," ","H","e","a","l","i","n","g">>>>,
             stats |-> "wisdom" :> 1] @@
      7 :> [abilities |-> <<<<"4","t","h"," ","L","e","v","e","l"," ","S","p","e","l","l","s">>>>,
             stats |-> "wisdom" :> 1] @@
      8 :> [abilities |-> <<<<"D","i","v","i","n","e"," ","S","t","r","i","k","e">>>>,
             stats |-> "wisdom" :> 1 @@ "constitution" :> 1] @@
      9 :> [abilities |-> <<<<"5","t","h"," ","L","e","v","e","l"," ","S","p","e","l","l","s">>>>,
             stats |-> "wisdom" :> 1] @@
      10 :> [abilities |-> <<<<"D","i","v","i","n","e"," ","I","n","t","e","r","v","e","n","t","i","o","n">>>>,
             stats |-> "wisdom" :> 2]) @@
    bard :> (
      2 :> [abilities |-> <<<<"J","a","c","k"," ","o","f"," ","A","l","l"," ","T","r","a","d","e","s">>>>,
             stats |-> "charisma" :> 1] @@
      3 :> [abilities |-> <<<<"B","a","r","d"," ","C","o","l","l","e","g","e">>>>,
             stats |-> "charisma" :> 1] @@
      4 :> [abilities |-> <<<<"E","x","p","e","r","t","i","s","e">>>>,
             stats |-> "charisma" :> 1] @@
      5 :> [abilities |-> <<<<"F","o","n","t"," ","o","f"," ","I","n","s","p","i","r","a","t","i","o","n">>>>,
             stats |-> "charisma" :> 1 @@ "dexterity" :> 1] @@
      6 :> [abilities |-> <<<<"C","o","u","n","t","e","r","c","h","a","r","m">>>>,
             stats |-> "charisma" :> 1] @@
      7 :> [abilities |-> <<<<"B","a","r","d"," ","C","o","l","l","e","g","e"," ","F","e","a","t","u","r","e">>>>,
             stats |-> "charisma" :> 1] @@
      8 :> [abilities |-> <<<<"A","b","i","l","i","t","y"," ","S","c","o","r","e"," ","I","m","p","r","o","v","e","m","e","n","t">>>>,
             stats |-> "charisma" :> 1 @@ "intelligence" :> 1] @@
      9 :> [abilities |-> <<<<"S","o","n","g"," ","o","f"," ","R","e","s","t"," ","I","m","p","r","o","v","e","m","e","n","t">>>>,
             stats |-> "charisma" :> 1] @@
      10 :> [abilities |-> <<<<"M","a","g","i","c","a","l"," ","S","e","c","r","e","t","s">>>>,
             stats |-> "charisma" :> 2]) @@
    ranger :> (
      2 :> [abilities |-> <<<<"F","i","g","h","t","i","n","g"," ","S","t","y","l","e">>>>,
             stats |-> "dexterity" :> 1] @@
      3 :> [abilities |-> <<<<"R","a","n","g","e","r"," ","C","o","n","c","l","a","v","e">>>>,
             stats |-> "wisdom" :> 1] @@
      4 :> [abilities |-> <<<<"P","r","i","m","e","v","a","l"," ","A","w","a","r","e","n","e","s","s">>>>,
             stats |-> "dexterity" :> 1] @@
      5 :> [abilities |-> <<<<"E","x","t","r","a"," ","A","t","t","a","c","k">>>>,
             stats |-> "dexterity" :> 1 @@ "wisdom" :> 1] @@
      6 :> [abilities |-> <<<<"G","r","e","a","t","e","r"," ","F","a","v","o","r","e","d"," ","E","n","e","m","y">>>>,
             stats |-> "dexterity" :> 1] @@
      7 :> [abilities |-> <<<<"R","a","n","g","e","r"," ","C","o","n","c","l","a","v","e"," ","F","e","a","t","u","r","e">>>>,
             stats |-> "wisdom" :> 1] @@
      8 :> [abilities |-> <<<<"L","a","n","d","'","s"," ","S","t","r","i","d","e">>>>,
             stats |-> "dexterity" :> 1 @@ "wisdom" :> 1] @@
      9 :> [abilities |-> <<<<"H","i","d","e"," ","i","n"," ","P","l","a","i","n"," ","S","i","g","h","t">>>>,
             stats |-> "dexterity" :> 1] @@
      10 :> [abilities |-> <<<<"N","a","t","u","r","e","'","s"," ","W","a","r","d","e","n">>>>,
             stats |-> "wisdom" :> 2]) @@
    paladin :> (
      2 :> [abilities |-> <<<<"D","i","v","i","n","e"," ","S","m","i","t","e">>>>,
             stats |-> "strength" :> 1] @@
      3 :> [abilities |-> <<<<"S","a","c","r","e","d"," ","O","a","t","h">>>>,
             stats |-> "charisma" :> 1] @@
      4 :> [abilities |-> <<<<"D","i","v","i","n","e"," ","H","e","a","l","t","h">>>>,
             stats |-> "constitution" :> 1] @@
      5 :> [abilities |-> <<<<"E","x","t","r","a"," ","A","t","t","a","c","k">>>>,
             stats |-> "strength" :> 1 @@ "charisma" :> 1] @@
      6 :> [abilities |-> <<<<"A","u","r","a"," ","o","f"," ","P","r","o","t","e","c","t","i","o","n">>>>,
             stats |-> "charisma" :> 1] @@
      7 :> [abilities |-> <<<<"S","a","c","r","e","d"," ","O","a","t","h"," ","F","e","a","t","u","r","e">>>>,
             stats |-> "strength" :> 1] @@
      8 :> [abilities |-> <<<<"A","u","r","a"," ","o","f"," ","C","o","u","r","a","g","e">>>>,
             stats |-> "charisma" :> 1 @@ "wisdom" :> 1] @@
      9 :> [abilities |-> <<<<"D","i","v","i","n","e"," ","S","e","n","s","e"," ","I","m","p","r","o","v","e","m","e","n","t">>>>,
             stats |-> "charisma" :> 1] @@
      10 :> [abilities |-> <<<<"A","u","r","a"," ","o","f"," ","D","e","v","o","t","i","o","n">>>>,
             stats |-> "charisma" :> 2]) @@
    druid :> (
      2 :> [abilities |-> <<<<"W","i","l","d"," ","S","h","a","p","e">>>>,
             stats |-> "wisdom" :> 1] @@
      3 :> [abilities |-> <<<<"D","r","u","i","d"," ","C","i","r","c","l","e">>>>,
             stats |-> "wisdom" :> 1] @@
      4 :> [abilities |-> <<<<"W","i","l","d"," ","S","h","a","p","e"," ","I","m","p","r","o","v","e","m","e","n","t">>>>,
             stats |-> "wisdom" :> 1] @@
      5 :> [abilities |-> <<<<"3","r","d"," ","L","e","v","e","l"," ","S","p","e","l","l","s">>>>,
             stats |-> "wisdom" :> 1 @@ "constitution" :> 1] @@
      6 :> [abilities |-> <<<<"D","r","u","i","d"," ","C","i","r","c","l","e"," ","F","e","a","t","u","r","e">>>>,
             stats |-> "wisdom" :> 1] @@
      7 :> [abilities |-> <<<<"4","t","h"," ","L","e","v","e","l"," ","S","p","e","l","l","s">>>>,
             stats |-> "wisdom" :> 1] @@
      8 :> [abilities |-> <<<<"W","i","l","d"," ","S","h","a","p","e"," ","I","m","p","r","o","v","e","m","e","n","t">>>>,
             stats |-> "wisdom" :> 1 @@ "constitution" :> 1] @@
      9 :> [abilities |-> <<<<"5","t","h"," ","L","e","v","e","l"," ","S","p","e","l","l","s">>>>,
             stats |-> "wisdom" :> 1] @@
      10 :> [abilities |-> <<<<"N","a","t","u","r","e","'","s"," ","S","a","n","c","t","u","a","r","y">>>>,
             stats |-> "wisdom" :> 2]) @@
    monk :> (
      2 :> [abilities |-> <<<<"K","i">>>>,
             stats |-> "dexterity" :> 1] @@
      3 :> [abilities |-> <<<<"M","o","n","a","s","t","i","c"," ","T","r","a","d","i","t","i","o","n">>>>,
             stats |-> "wisdom" :> 1] @@
      4 :> [abilities |-> <<<<"S","l","o","w"," ","F","a","l","l">>>>,
             stats |-> "dexterity" :> 1] @@
      5 :> [abilities |-> <<<<"S","t","u","n","n","i","n","g"," ","S","t","r","i","k","e">>>>,
             stats |-> "dexterity" :> 1 @@ "wisdom" :> 1] @@
      6 :> [abilities |-> <<<<"K","i","-","E","m","p","o","w","e","r","e","d"," ","S","t","r","i","k","e","s">>>>,
             stats |-> "dexterity" :> 1] @@
      7 :> [abilities |-> <<<<"E","v","a","s","i","o","n">>>>,
             stats |-> "dexterity" :> 1] @@
      8 :> [abilities |-> <<<<"S","t","i","l","l","n","e","s","s"," ","o","f"," ","M","i","n","d">>>>,
             stats |-> "wisdom" :> 1 @@ "dexterity" :> 1] @@
      9 :> [abilities |-> <<<<"U","n","a","r","m","o","r","e","d"," ","M","o","v","e","m","e","n","t"," ","I","m","p","r","o","v","e","m","e","n","t">>>>,
             stats |-> "dexterity" :> 1] @@
      10 :> [abilities |-> <<<<"P","u","r","i","t","y"," ","o","f"," ","B","o","d","y">>>>,
             stats |-> "constitution" :> 1 @@ "wisdom" :> 1]) @@
    sorcerer :> (
      2 :> [abilities |-> <<<<"F","o","n","t"," ","o","f"," ","M","a","g","i","c">>>>,
             stats |-> "charisma" :> 1] @@
      3 :> [abilities |-> <<<<"M","e","t","a","m","a","g","i","c">>>>,
             stats |-> "charisma" :> 1] @@
      4 :> [abilities |-> <<<<"S","o","r","c","e","r","o","u","s"," ","O","r","i","g","i","n"," ","F","e","a","t","u","r","e">>>>,
             stats |-> "charisma" :> 1] @@
      5 :> [abilities |-> <<<<"3","r","d"," ","L","e","v","e","l"," ","S","p","e","l","l","s">>>>,
             stats |-> "charisma" :> 1 @@ "constitution" :> 1] @@
      6 :> [abilities |-> <<<<"A","d","d","i","t","i","o","n","a","l"," ","M","e","t","a","m","a","g","i","c">>>>,
             stats |-> "charisma" :> 1] @@
      7 :> [abilities |-> <<<<"4","t","h"," ","L","e","v","e","l"," ","S","p","e","l","l","s">>>>,
             stats |-> "charisma" :> 1] @@
      8 :> [abilities |-> <<<<"A","b","i","l","i","t","y"," ","S","c","o","r","e"," ","I","m","p","r","o","v","e","m","e","n","t">>>>,
             stats |-> "charisma" :> 1 @@ "constitution" :> 1] @@
      9 :> [abilities |-> <<<<"5","t","h"," ","L","e","v","e","l"," ","S","p","e","l","l","s">>>>,
             stats |-> "charisma" :> 1] @@
      10 :> [abilities |-> <<<<"S","o","r","c","e","r","o","u","s"," ","R","e","s","t","o","r","a","t","i","o","n">>>>,
             stats |-> "charisma" :> 2])

\* The dict literal of _get_ability_type, as its (key, value) pairs in
\* insertion order (the order "for key, value in ability_types.items()" visits).
ability_types ==
    << <<<<"i","m","p","r","o","v","e","d","_","c","o","m","b","a","t","_","t","e","c","h","n","i","q","u","e","s">>, "passive">>,
       <<<<"b","a","t","t","l","e","_","c","r","y">>, "active">>,
       <<<<"s","e","c","o","n","d","_","w","i","n","d">>, "active">>,
       <<<<"e","x","t","r","a","_","a","t","t","a","c","k">>, "passive">>,
       <<<<"d","e","f","e","n","s","i","v","e","_","s","t","a","n","c","e">>, "active">>,
       <<<<"i","n","t","i","m","i","d","a","t","i","n","g","_","p","r","e","s","e","n","c","e">>, "passive">>,
       <<<<"i","m","p","r","o","v","e","d","_","c","r","i","t","i","c","a","l">>, "passive">>,
       <<<<"c","l","e","a","v","e">>, "active">>,
       <<<<"c","h","a","m","p","i","o","n","_","s","_","m","i","g","h","t">>, "special">>,
       <<<<"a","r","c","a","n","e","_","r","e","c","o","v","e","r","y">>, "passive">>,
       <<<<"s","p","e","l","l","_","s","c","h","o","o","l","_","s","p","e","c","i","a","l","i","z","a","t","i","o","n">>, "passive">>,
       <<<<"c","a","n","t","r","i","p","_","m","a","s","t","e","r","y">>, "passive">>,
       <<<<"3","r","d","_","l","e","v","e","l","_","s","p","e","l","l","s">>, "active">>,
       <<<<"a","r","c","a","n","e","_","t","r","a","d","i","t","i","o","n","_","f","e","a","t","u","r","e">>, "passive">>,
       <<<<"4","t","h","_","l","e","v","e","l","_","s","p","e","l","l","s">>, "active">>,
       <<<<"5","t","h","_","l","e","v","e","l","_","s","p","e","l","l","s">>, "active">>,
       <<<<"a","r","c","a","n","e","_","m","a","s","t","e","r","y">>, "special">>,
       <<<<"i","m","p","r","o","v","e","d">>, "passive">>,
       <<<<"m","a","s","t","e","r","y">>, "passive">>,
       <<<<"s","p","e","c","i","a","l","i","z","a","t","i","o","n">>, "passive">>,
       <<<<"r","e","c","o","v","e","r","y">>, "passive">>,
       <<<<"s","t","a","n","c","e">>, "active">>,
       <<<<"s","t","r","i","k","e">>, "active">>,
       <<<<"a","t","t","a","c","k">>, "active">>,
       <<<<"c","r","y">>, "active">>,
       <<<<"s","p","e","l","l","s">>, "active">>,
       <<<<"s","h","i","e","l","d">>, "active">>,
       <<<<"m","i","g","h","t">>, "special">>,
       <<<<"m","a","s","t","e","r">>, "special">>,
       <<<<"f","o","c","u","s">>, "special">>,
       <<<<"r","a","g","e">>, "special">>,
       <<<<"i","n","t","e","r","v","e","n","t","i","o","n">>, "special">> >>

(***************************************************************************)
(* Python's str and dict operations used by the service.                   *)
(***************************************************************************)
\* The empty dict {}.
EmptyDict == [k \in {} |-> 0]

\* dict.get(key, default)
Get(d, k, default) == IF k \in DOMAIN d THEN d[k] ELSE default

\* str.lower() and str.upper() on one character (ASCII letters).
LowerOf ==
    "A" :> "a" @@ "B" :> "b" @@ "C" :> "c" @@ "D" :> "d" @@ "E" :> "e" @@ "F" :> "f" @@
    "G" :> "g" @@ "H" :> "h" @@ "I" :> "i" @@ "J" :> "j" @@ "K" :> "k" @@ "L" :> "l" @@
    "M" :> "m" @@ "N" :> "n" @@ "O" :> "o" @@ "P" :> "p" @@ "Q" :> "q" @@ "R" :> "r" @@
    "S" :> "s" @@ "T" :> "t" @@ "U" :> "u" @@ "V" :> "v" @@ "W" :> "w" @@ "X" :> "x" @@
    "Y" :> "y" @@ "Z" :> "z"

lower_char(c) == IF c \in DOMAIN LowerOf THEN LowerOf[c] ELSE c

upper_char(c) ==
    IF \E u \in DOMAIN LowerOf : LowerOf[u] = c
    THEN CHOOSE u \in DOMAIN LowerOf : LowerOf[u] = c
    ELSE c

\* s.lower()
str_lower(s) == [i \in 1..Len(s) |-> lower_char(s[i])]

\* s.replace(a, b) for one-character a and b
str_replace(s, a, b) == [i \in 1..Len(s) |-> IF s[i] = a THEN b ELSE s[i]]

\* key in s  (substring test)
str_contains(key, s) ==
    \E i \in 1..(Len(s) - Len(key) + 1) : SubSeq(s, i, i + Len(key) - 1) = key

\* item in list
list_contains(item, list) == \E i \in 1..Len(list) : list[i] = item

\* s.split(): the maximal runs of non-space characters, in order.
RECURSIVE str_split(_)
str_split(s) ==
    IF s = <<>> THEN <<>>
    ELSE IF s[1] = " " THEN str_split(Tail(s))
    ELSE LET stops == {i \in 1..Len(s) : s[i] = " "}
             n == IF stops = {} THEN Len(s)
                  ELSE (CHOOSE i \in stops : \A j \in stops : i <= j) - 1
         IN  <<SubSeq(s, 1, n)>> \o str_split(SubSeq(s, n + 1, Len(s)))

\* word.capitalize(): first character upper-cased, the rest lower-cased.
str_capitalize(w) ==
    [i \in 1..Len(w) |-> IF i = 1 THEN upper_char(w[i]) ELSE lower_char(w[i])]

\* " ".join(words)
RECURSIVE str_join(_)
str_join(words) ==
    IF words = <<>> THEN <<>>
    ELSE IF Len(words) = 1 THEN words[1]
    ELSE words[1] \o <<" ">> \o str_join(Tail(words))

(***************************************************************************)
(* The service's helpers (character_progression.py).                       *)
(***************************************************************************)
\* _format_ability_name(ability_id)
_format_ability_name(ability_id) ==
    LET words == str_split(str_replace(ability_id, "_", " "))
    IN  str_join([i \in 1..Len(words) |-> str_capitalize(words[i])])

DescriptionHead == <<"A"," ","p","o","w","e","r","f","u","l"," ">>
DescriptionMid ==
    <<" ","a","b","i","l","i","t","y"," ","t","h","a","t"," ","a","l","l","o","w","s",
      " ","y","o","u"," ","t","o"," ","u","s","e"," ">>

\* _get_ability_description(ability_id, character_class)
_get_ability_description(ability_id, character_class) ==
    DescriptionHead \o character_class \o DescriptionMid
        \o _format_ability_name(ability_id) \o <<".">>

\* _get_ability_type, the exact match (line 318): the entries whose key is the id.
ExactMatches(id) == {i \in 1..Len(ability_types) : ability_types[i][1] = id}

\* _get_ability_type, the partial match (lines 322-324): the entries whose key
\* is a substring of the id.
PartialMatches(id) ==
    {i \in 1..Len(ability_types) : str_contains(ability_types[i][1], id)}

\* A slip of line 327: an id that matches nothing is passive.
TypeOfMatches_DefaultPassive(exact, partial) ==
    IF exact # {} THEN ability_types[CHOOSE i \in exact : TRUE][2]
    ELSE IF partial # {}
    THEN ability_types[CHOOSE i \in partial : \A j \in partial : i <= j][2]
    ELSE "passive"

\* A slip of lines 322-324: the last partial match in the dict's order is taken.
TypeOfMatches_LastPartial(exact, partial) ==
    IF exact # {} THEN ability_types[CHOOSE i \in exact : TRUE][2]
    ELSE IF partial # {}
    THEN ability_types[CHOOSE i \in partial : \A j \in partial : i >= j][2]
    ELSE "active"

\* Lines 318-327 on the matches found: an exact match first, else the first
\* partial match in the dict's insertion order, else "active".
TypeOfMatches(exact, partial) ==
    IF exact # {} THEN ability_types[CHOOSE i \in exact : TRUE][2]
    ELSE IF partial # {}
    THEN ability_types[CHOOSE i \in partial : \A j \in partial : i <= j][2]
    ELSE "active"

\* ability_id.lower().replace(" ", "_")
NormalizedId(ability_id) == str_replace(str_lower(ability_id), " ", "_")

\* _get_ability_type(ability_id, character_class)
_get_ability_type(ability_id, character_class) ==
    TypeOfMatches(ExactMatches(NormalizedId(ability_id)),
                  PartialMatches(NormalizedId(ability_id)))

\* The stat block _process_level_up starts from when stats is empty.
DefaultStats ==
    "strength" :> 10 @@ "dexterity" :> 10 @@ "constitution" :> 10 @@
    "intelligence" :> 10 @@ "wisdom" :> 10 @@ "charisma" :> 10 @@
    "health" :> 100 @@ "mana" :> 100

AbilityCategories == <<"passive", "active", "special">>

(***************************************************************************)
(* Python lists are objects: abilities.copy() copies the dict and shares    *)
(* its lists, and list.append changes the list for every dict holding it.  *)
(* A heap is a sequence of lists; an abilities dict maps a category to the *)
(* index (reference) of its list.                                          *)
(***************************************************************************)
\* The categories of AbilityCategories that are keys of abilities, in order.
KeysOf(abilities) == SelectSeq(AbilityCategories, LAMBDA c : c \in DOMAIN abilities)

\* The position of category c in the sequence cats.
IndexOf(cats, c) == CHOOSE i \in 1..Len(cats) : cats[i] = c

\* The lists a decoded abilities value (category -> list) consists of, as a heap
\* and the dict of references into it.
HeapOf(abilities) ==
    [heap |-> [i \in 1..Len(KeysOf(abilities)) |-> abilities[KeysOf(abilities)[i]]],
     refs |-> [c \in DOMAIN abilities |-> IndexOf(KeysOf(abilities), c)]]

\* The value of an abilities dict of references, read off the heap.
Deref(heap, refs) == [c \in DOMAIN refs |-> heap[refs[c]]]

\* A slip of lines 135 and 148: the defaults replace whatever was passed in.
Bootstrap_Always(heap, stats, abilities) ==
    [stats |-> DefaultStats,
     heap |-> heap \o << <<>>, <<>>, <<>> >>,
     abilities |-> [c \in {"passive", "active", "special"} |->
                      Len(heap) + IndexOf(AbilityCategories, c)]]

\* Lines 135-153: default stats for empty stats, and three new empty lists for
\* empty abilities.
Bootstrap(heap, stats, abilities) ==
    [stats |-> IF DOMAIN stats = {} THEN DefaultStats ELSE stats,
     heap |-> IF DOMAIN abilities = {} THEN heap \o << <<>>, <<>>, <<>> >> ELSE heap,
     abilities |-> IF DOMAIN abilities = {}
                   THEN [c \in {"passive", "active", "special"} |->
                           Len(heap) + IndexOf(AbilityCategories, c)]
                   ELSE abilities]

\* A slip of line 156: the bonuses of the level the character leaves.
LevelBonuses_OfOldLevel(character_class, new_level) ==
    Get(Get(CLASS_LEVEL_BONUSES, character_class, EmptyDict), new_level - 1, EmptyDict)

\* A slip of line 156: a class the table lacks gets the warrior's bonuses.
LevelBonuses_DefaultsToWarrior(character_class, new_level) ==
    Get(Get(CLASS_LEVEL_BONUSES, character_class, CLASS_LEVEL_BONUSES[warrior]),
        new_level, EmptyDict)

\* Line 156: CLASS_LEVEL_BONUSES.get(character_class, {}).get(new_level, {})
LevelBonuses(character_class, new_level) ==
    Get(Get(CLASS_LEVEL_BONUSES, character_class, EmptyDict), new_level, EmptyDict)

\* Lines 168-173 for one stat: the change recorded for it.
StatChange(old_value, value) ==
    [old |-> old_value, new |-> old_value + value, change |-> <<"+", value>>]

\* A slip of line 168: the bonus is taken off the stat.
ApplyStatBonuses_Subtracts(stats, bonus) ==
    [new_stats |-> [s \in DOMAIN stats |->
                      IF s \in DOMAIN bonus THEN stats[s] - bonus[s] ELSE stats[s]],
     stat_changes |-> [s \in DOMAIN bonus \cap DOMAIN stats |->
                         StatChange(stats[s], bonus[s])]]

\* A slip of line 166: a bonus for a stat that is no key of new_stats is added
\* to 0 and stored under a new key.
ApplyStatBonuses_AddsMissing(stats, bonus) ==
    [new_stats |-> [s \in DOMAIN stats \cup DOMAIN bonus |->
                      Get(stats, s, 0) + Get(bonus, s, 0)],
     stat_changes |-> [s \in DOMAIN bonus |-> StatChange(Get(stats, s, 0), bonus[s])]]

\* Lines 163-173, the "for stat, value in level_bonuses['stats'].items()" loop:
\* the bonus is added only to a stat that is a key of new_stats.
ApplyStatBonuses(stats, bonus) ==
    [new_stats |-> [s \in DOMAIN stats |->
                      IF s \in DOMAIN bonus THEN stats[s] + bonus[s] ELSE stats[s]],
     stat_changes |-> [s \in DOMAIN bonus \cap DOMAIN stats |->
                         StatChange(stats[s], bonus[s])]]

\* Lines 184-188: the change recorded for a new ability.
AbilityChange(ability, ability_type, character_class) ==
    [name |-> _format_ability_name(ability),
     description |-> _get_ability_description(ability, character_class),
     type |-> ability_type]

\* A slip of line 182: the ability is appended without looking for it in the list.
ApplyAbility_NoCheck(acc, new_abilities, ability, ability_type, character_class) ==
    IF ability_type \in DOMAIN new_abilities
    THEN [heap |-> [acc.heap EXCEPT ![new_abilities[ability_type]] =
                        Append(@, ability)],
          ability_changes |-> Append(acc.ability_changes,
                        AbilityChange(ability, ability_type, character_class))]
    ELSE acc

\* Lines 179-188 for one ability: it is appended to the list of its category (in
\* place) unless that list holds it already or new_abilities has no such
\* category. acc is the heap and the ability_changes so far.
ApplyAbility(acc, new_abilities, ability, ability_type, character_class) ==
    IF /\ ability_type \in DOMAIN new_abilities
       /\ ~list_contains(ability, acc.heap[new_abilities[ability_type]])
    THEN [heap |-> [acc.heap EXCEPT ![new_abilities[ability_type]] =
                        Append(@, ability)],
          ability_changes |-> Append(acc.ability_changes,
                        AbilityChange(ability, ability_type, character_class))]
    ELSE acc

\* Lines 177-188, the "for ability in level_bonuses['abilities']" loop from the
\* i-th ability of list on.
RECURSIVE ApplyAbilities(_, _, _, _, _)
ApplyAbilities(acc, new_abilities, list, i, character_class) ==
    IF i > Len(list) THEN acc
    ELSE ApplyAbilities(
            ApplyAbility(acc, new_abilities, list[i],
                         _get_ability_type(list[i], character_class),
                         character_class),
            new_abilities, list, i + 1, character_class)

\* Lines 191-201: the level_up_data dict (new_abilities as references), with the
\* heap after the call.
LevelUpData(new_level, character_class, st, ab, new_abilities) ==
    [heap |-> ab.heap,
     level_up_data |->
        [level |-> new_level,
         character_class |-> character_class,
         stat_changes |-> st.stat_changes,
         ability_changes |-> ab.ability_changes,
         new_stats |-> st.new_stats,
         new_abilities |-> new_abilities,
         xp_required |-> LEVEL_XP_REQUIREMENTS[new_level]]]

\* Lines 156-201 on the bootstrapped stats and abilities b.
ProcessBonuses(b, new_level, character_class, level_bonuses) ==
    LevelUpData(new_level, character_class,
                ApplyStatBonuses(b.stats, Get(level_bonuses, "stats", EmptyDict)),
                ApplyAbilities([heap |-> b.heap, ability_changes |-> <<>>],
                               b.abilities, Get(level_bonuses, "abilities", <<>>),
                               1, character_class),
                b.abilities)

\* _process_level_up(character, new_level, character_class, stats, abilities),
\* with the heap the lists live in: the heap after the call and the
\* level_up_data dict it returns.
_process_level_up(heap, new_level, character_class, stats, abilities) ==
    ProcessBonuses(Bootstrap(heap, stats, abilities), new_level, character_class,
                   LevelBonuses(character_class, new_level))

(***************************************************************************)
(* add_experience: the computation between its read and its write.         *)
(***************************************************************************)
\* A slip of line 54: the total is the amount alone.
NewXpTotal_AmountOnly(current_xp, xp_amount) == xp_amount

\* Line 54: new_xp_total = current_xp + xp_amount
NewXpTotal(current_xp, xp_amount) == current_xp + xp_amount

\* Slips of line 62: a threshold equal to the total does not count; the test
\* forgets the character's current level.
LevelReached_Strict(level, xp_required, current_level, new_xp_total) ==
    level > current_level /\ new_xp_total > xp_required

LevelReached_XpOnly(level, xp_required, current_level, new_xp_total) ==
    new_xp_total >= xp_required

\* Line 62: the test that decides whether table level `level` is processed.
LevelReached(level, xp_required, current_level, new_xp_total) ==
    level > current_level /\ new_xp_total >= xp_required

\* Slips of lines 63-69: the new level is one too high; the working stats are
\* not carried to the next level (line 68 missing).
Advance_OffByOne(st, level, done) ==
    [new_level |-> level + 1,
     level_ups |-> Append(st.level_ups, done.level_up_data),
     stats |-> done.level_up_data.new_stats,
     abilities |-> done.level_up_data.new_abilities,
     heap |-> done.heap]

Advance_StatsNotCarried(st, level, done) ==
    [new_level |-> level,
     level_ups |-> Append(st.level_ups, done.level_up_data),
     stats |-> st.stats,
     abilities |-> done.level_up_data.new_abilities,
     heap |-> done.heap]

\* Lines 63-69: the loop's variables after the level-up to `level`, processed
\* with result done.
Advance(st, level, done) ==
    [new_level |-> level,
     level_ups |-> Append(st.level_ups, done.level_up_data),
     stats |-> done.level_up_data.new_stats,
     abilities |-> done.level_up_data.new_abilities,
     heap |-> done.heap]

\* The table's levels above `level`, and the first of them.
LaterLevels(level) == {l \in DOMAIN LEVEL_XP_REQUIREMENTS : l > level}
FirstOf(levels) == CHOOSE l \in levels : \A m \in levels : l <= m

\* Lines 61-69: one pass of the loop body for the table's key `level`. st holds
\* the loop's variables: new_level, level_ups, the working stats and abilities,
\* and the heap of ability lists.
LevelStep(level, current_level, new_xp_total, character_class, st) ==
    IF LevelReached(level, LEVEL_XP_REQUIREMENTS[level], current_level, new_xp_total)
    THEN Advance(st, level,
                 _process_level_up(st.heap, level, character_class,
                                   st.stats, st.abilities))
    ELSE st

\* Lines 61-69: the loop over sorted(LEVEL_XP_REQUIREMENTS.items()), from the
\* table's key `level` on.
RECURSIVE LevelLoop(_, _, _, _, _)
LevelLoop(level, current_level, new_xp_total, character_class, st) ==
    IF LaterLevels(level) = {}
    THEN LevelStep(level, current_level, new_xp_total, character_class, st)
    ELSE LevelLoop(FirstOf(LaterLevels(level)), current_level, new_xp_total,
                   character_class,
                   LevelStep(level, current_level, new_xp_total, character_class, st))

\* A slip of lines 72-81: level, stats and abilities are always sent.
UpdateData_Always(new_xp_total, new_level, current_level, stats, abilities) ==
    [experience |-> new_xp_total, updated_at |-> "now()",
     level |-> new_level, stats |-> stats, abilities |-> abilities]

\* Lines 72-81: the update sent to the characters table.
UpdateData(new_xp_total, new_level, current_level, stats, abilities) ==
    IF new_level > current_level
    THEN [experience |-> new_xp_total, updated_at |-> "now()",
          level |-> new_level, stats |-> stats, abilities |-> abilities]
    ELSE [experience |-> new_xp_total, updated_at |-> "now()"]

\* A level-up record as the caller reads it once the loop is over: the lists of
\* its new_abilities are the shared ones, as they are then.
Observed(heap, level_ups) ==
    [i \in 1..Len(level_ups) |->
        [level_ups[i] EXCEPT !.new_abilities = Deref(heap, @)]]

\* The locals of add_experience after the loop (st), at line 81.
Locals(current_level, new_xp_total, st) ==
    [current_level |-> current_level,
     new_xp_total |-> new_xp_total,
     new_level |-> st.new_level,
     level_ups |-> Observed(st.heap, st.level_ups),
     update_data |-> UpdateData(new_xp_total, st.new_level, current_level,
                                st.stats, Deref(st.heap, st.abilities))]

\* The loop's variables before the loop (lines 50-58).
LoopStart(character) ==
    [new_level |-> character.level, level_ups |-> <<>>,
     stats |-> character.stats,
     abilities |-> HeapOf(character.abilities).refs,
     heap |-> HeapOf(character.abilities).heap]

\* Lines 54-69 for the total new_xp_total.
ComputeFor(character, new_xp_total) ==
    Locals(character.level, new_xp_total,
           LevelLoop(FirstOf(DOMAIN LEVEL_XP_REQUIREMENTS), character.level,
                     new_xp_total, str_lower(character.character_class),
                     LoopStart(character)))

\* Lines 46-81 for the row `character` and xp_amount: the locals the rest of
\* add_experience uses.
Compute(character, xp_amount) ==
    ComputeFor(character, NewXpTotal(character.experience, xp_amount))

(***************************************************************************)
(* The characters table, the calls in flight and what they emitted.        *)
(***************************************************************************)
\* How many requests (calls of the endpoint or of add_experience) one
\* behaviour makes.
MaxCalls == 2

\* The action types and difficulties of the reward tables, as strings.
combat == <<"c","o","m","b","a","t">>
quest == <<"q","u","e","s","t">>
puzzle == <<"p","u","z","z","l","e">>
exploration == <<"e","x","p","l","o","r","a","t","i","o","n">>
roleplay == <<"r","o","l","e","p","l","a","y">>
crafting == <<"c","r","a","f","t","i","n","g">>
easy == <<"e","a","s","y">>
medium == <<"m","e","d","i","u","m">>
hard == <<"h","a","r","d">>
boss == <<"b","o","s","s">>
minor == <<"m","i","n","o","r">>
standard == <<"s","t","a","n","d","a","r","d">>
major == <<"m","a","j","o","r">>
epic == <<"e","p","i","c">>
location == <<"l","o","c","a","t","i","o","n">>
secret == <<"s","e","c","r","e","t">>
landmark == <<"l","a","n","d","m","a","r","k">>
significant == <<"s","i","g","n","i","f","i","c","a","n","t">>
basic == <<"b","a","s","i","c">>
advanced == <<"a","d","v","a","n","c","e","d">>
masterwork == <<"m","a","s","t","e","r","w","o","r","k">>

\* utils/character_defaults.py, get_xp_reward_values (services line 25).
XP_REWARD_VALUES ==
    combat :> (easy :> 100 @@ medium :> 200 @@ hard :> 400 @@ boss :> 1000) @@
    quest :> (minor :> 300 @@ standard :> 600 @@ major :> 1200 @@ epic :> 2500) @@
    puzzle :> (easy :> 150 @@ medium :> 300 @@ hard :> 600) @@
    exploration :> (location :> 100 @@ secret :> 200 @@ landmark :> 300) @@
    roleplay :> (minor :> 50 @@ significant :> 150 @@ major :> 300) @@
    crafting :> (basic :> 50 @@ advanced :> 150 @@ masterwork :> 300)

\* Lines 347-363: the rewards of an action type XP_REWARD_VALUES lacks.
default_action_rewards ==
    easy :> 50 @@ medium :> 100 @@ hard :> 200 @@ minor :> 50 @@ standard :> 100 @@
    major :> 200 @@ epic :> 500 @@ boss :> 500 @@ location :> 50 @@ secret :> 100 @@
    landmark :> 150 @@ significant :> 100 @@ basic :> 50 @@ advanced :> 100 @@ masterwork :> 200

\* Line 343 and lines 346-363: the rewards of the lower-cased action type, or
\* the default rewards when XP_REWARD_VALUES has none for it.
ActionRewardsOr(found) ==
    IF DOMAIN found = {} THEN default_action_rewards ELSE found

ActionRewards(action_type) ==
    ActionRewardsOr(Get(XP_REWARD_VALUES, str_lower(action_type), EmptyDict))

\* A slip of lines 343 and 366: the keys are looked up as given.
BaseXp_CaseSensitive(action_type, difficulty) ==
    Get(ActionRewardsOr(Get(XP_REWARD_VALUES, action_type, EmptyDict)), difficulty, 100)

\* Line 366: base_xp = action_rewards.get(difficulty.lower(), 100)
BaseXp(action_type, difficulty) ==
    Get(ActionRewards(action_type), str_lower(difficulty), 100)

\* A slip of lines 369-371: a failure earns the full base.
SuccessModifier_NoPenalty(base_xp, success) == base_xp

\* Lines 369-371: int(base_xp * 0.5) on a failure (base_xp is never negative).
SuccessModifier(base_xp, success) ==
    IF success THEN base_xp ELSE base_xp \div 2

\* Python's round() of num / den, for num >= 0 and den > 0: to the nearest
\* integer, a half to the even one.
round(num, den) ==
    IF 2 * (num % den) > den \/ (2 * (num % den) = den /\ (num \div den) % 2 = 1)
    THEN (num \div den) + 1
    ELSE num \div den

\* A slip of line 378: rounded to the nearest integer, not to a multiple of 5.
FinalXp_Unrounded(base_xp, variation) == round(base_xp * variation, 1000)

\* Line 378: final_xp = round(base_xp * variation / 5) * 5, the variation of
\* line 375 given in thousandths.
FinalXp(base_xp, variation) == round(base_xp * variation, 5 * 1000) * 5

\* Line 380: max(5, final_xp)
AtLeast5(final_xp) == IF final_xp > 5 THEN final_xp ELSE 5

\* calculate_xp_reward(action_type, difficulty, success), with the value
\* random.uniform(0.9, 1.1) returned to it.
calculate_xp_reward(action_type, difficulty, success, variation) ==
    AtLeast5(FinalXp(SuccessModifier(BaseXp(action_type, difficulty), success),
                     variation))

\* The action types calculate_xp_reward is called with: those of the table,
\* one capitalised, one unknown (the test's), and the empty string.
unknown_type == <<"u","n","k","n","o","w","n","_","t","y","p","e">>
ActionTypes ==
    DOMAIN XP_REWARD_VALUES \cup {<<"C","o","m","b","a","t">>, unknown_type, <<>>}

\* The difficulties: every key of the tables, one in capitals, one unknown.
Difficulties ==
    DOMAIN default_action_rewards
        \cup {<<"H","A","R","D">>, <<"l","e","g","e","n","d","a","r","y">>}

\* Values of random.uniform(0.9, 1.1), in thousandths.
Variations == {900, 905, 925, 950, 975, 1000, 1025, 1050, 1075, 1100}

\* The ability ids of tests/test_character_progression.py and of the spec's
\* examples.
power_strike == <<"p","o","w","e","r","_","s","t","r","i","k","e">>
improved_critical == <<"i","m","p","r","o","v","e","d","_","c","r","i","t","i","c","a","l">>
berserker_rage == <<"b","e","r","s","e","r","k","e","r","_","r","a","g","e">>
arcane_recovery == <<"a","r","c","a","n","e","_","r","e","c","o","v","e","r","y">>
unknown_ability == <<"u","n","k","n","o","w","n","_","a","b","i","l","i","t","y">>
totally_unknown_ability ==
    <<"t","o","t","a","l","l","y","_","u","n","k","n","o","w","n","_",
      "a","b","i","l","i","t","y">>

\* The abilities the Class Bonus Table grants.
BonusAbilities ==
    UNION {UNION {{CLASS_LEVEL_BONUSES[c][l].abilities[i] :
                      i \in 1..Len(CLASS_LEVEL_BONUSES[c][l].abilities)} :
                  l \in DOMAIN CLASS_LEVEL_BONUSES[c]} :
           c \in DOMAIN CLASS_LEVEL_BONUSES}

\* The ability ids _get_ability_type is called with.
\* Ids that several keys of ability_types match: "Arcane Mastery" (a key once
\* normalised, which holds the keys mastery and master), "Sword Mastery" (the
\* keys mastery and master only) and "Battle Cry Mastery" (battle_cry as well).
arcane_mastery == <<"A","r","c","a","n","e"," ","M","a","s","t","e","r","y">>
sword_mastery == <<"S","w","o","r","d"," ","M","a","s","t","e","r","y">>
battle_cry_mastery ==
    <<"B","a","t","t","l","e"," ","C","r","y"," ","M","a","s","t","e","r","y">>

AbilityIds ==
    BonusAbilities \cup {power_strike, improved_critical, berserker_rage,
                         arcane_recovery, unknown_ability, totally_unknown_ability,
                         arcane_mastery, sword_mastery, battle_cry_mastery,
                         <<"P","o","w","e","r"," ","S","t","r","i","k","e">>, <<>>}

\* Two streams of calls that run concurrently, each one call at a time:
\* "http" serves POST /character-progression/{id}/experience, and "direct"
\* calls add_experience itself, as the tests and the reward endpoints do.
Callers == {"http", "direct"}

\* Character ids requests name.
CharacterIds == {1, 2}

\* The XP amounts requests carry: negative, none, small, past the first
\* threshold, beyond the whole table.
Amounts == {-5, 0, 50, 1050, 200000}

\* current_user of a request: two players and an admin.
Users == {[id |-> "u1", role |-> "user"], [id |-> "u2", role |-> "user"],
          [id |-> "a1", role |-> "admin"]}

\* The characters the admin's delete requests name.
Deleted == {2}

\* No row with that id.
NoRow == [missing |-> TRUE]
\* Python's None, and a non-empty list where None may stand instead.
None == [none |-> TRUE]
List(items) == [items |-> items]

\* test_character of tests/test_character_progression.py.
Aragorn ==
    [name |-> "Aragorn", character_class |-> warrior, level |-> 1, experience |-> 0,
     stats |-> "strength" :> 15 @@ "dexterity" :> 12 @@ "constitution" :> 14 @@
               "intelligence" :> 10 @@ "wisdom" :> 12 @@ "charisma" :> 13 @@
               "health" :> 100 @@ "mana" :> 50,
     abilities |-> [passive |-> << <<"R","e","s","t">>,
                                   <<"T","o","u","g","h","n","e","s","s">> >>,
                    active |-> << <<"A","t","t","a","c","k">>,
                                  <<"P","o","w","e","r"," ","S","t","r","i","k","e">> >>,
                    special |-> <<>>],
     created_by |-> "u1", updated_at |-> 0]

\* A wizard stored with empty stats and abilities and a capitalised class name,
\* 50 XP short of level 2.
Merlin ==
    [name |-> "Merlin", character_class |-> <<"W","i","z","a","r","d">>,
     level |-> 1, experience |-> 950,
     stats |-> EmptyDict, abilities |-> EmptyDict,
     created_by |-> "u1", updated_at |-> 0]

\* A druid at level 3 (its class gains "Wild Shape Improvement" at levels 4 and 8).
Radagast ==
    [name |-> "Radagast", character_class |-> druid, level |-> 3, experience |-> 3000,
     stats |-> DefaultStats,
     abilities |-> [passive |-> <<>>, active |-> <<>>, special |-> <<>>],
     created_by |-> "u2", updated_at |-> 0]

\* The rows the table may start with, per character id.
InitialRows == [c \in CharacterIds |-> IF c = 1 THEN {Aragorn, Merlin} ELSE {Radagast}]

\* utils/character_defaults.py, get_default_abilities: the abilities every new
\* character has, and those of its class.
basic_abilities ==
    [passive |-> <<<<"R","e","s","t">>, <<"O","b","s","e","r","v","e">>>>,
     active |-> <<<<"A","t","t","a","c","k">>>>,
     special |-> <<>>]

class_abilities ==
    warrior :> [passive |-> <<<<"T","o","u","g","h","n","e","s","s">>, <<"I","n","t","i","m","i","d","a","t","e">>>>,
        active |-> <<<<"P","o","w","e","r"," ","S","t","r","i","k","e">>, <<"S","h","i","e","l","d"," ","B","l","o","c","k">>, <<"C","h","a","r","g","e">>>>,
        special |-> <<<<"B","e","r","s","e","r","k","e","r"," ","R","a","g","e">>>>] @@
    wizard :> [passive |-> <<<<"A","r","c","a","n","e"," ","K","n","o","w","l","e","d","g","e">>, <<"S","p","e","l","l"," ","F","o","c","u","s">>>>,
        active |-> <<<<"F","i","r","e","b","a","l","l">>, <<"M","a","g","i","c"," ","M","i","s","s","i","l","e">>, <<"A","r","c","a","n","e"," ","S","h","i","e","l","d">>>>,
        special |-> <<<<"T","e","l","e","p","o","r","t">>, <<"T","i","m","e"," ","M","a","n","i","p","u","l","a","t","i","o","n">>>>] @@
    rogue :> [passive |-> <<<<"S","t","e","a","l","t","h">>, <<"T","r","a","p"," ","D","e","t","e","c","t","i","o","n">>>>,
        active |-> <<<<"B","a","c","k","s","t","a","b">>, <<"P","i","c","k","p","o","c","k","e","t">>, <<"E","v","a","s","i","o","n">>>>,
        special |-> <<<<"S","h","a","d","o","w"," ","S","t","r","i","k","e">>>>] @@
    cleric :> [passive |-> <<<<"D","i","v","i","n","e"," ","F","a","v","o","r">>, <<"H","e","a","l","i","n","g"," ","A","u","r","a">>>>,
        active |-> <<<<"H","e","a","l">>, <<"S","m","i","t","e">>, <<"B","l","e","s","s">>>>,
        special |-> <<<<"D","i","v","i","n","e"," ","I","n","t","e","r","v","e","n","t","i","o","n">>>>] @@
    bard :> [passive |-> <<<<"C","h","a","r","i","s","m","a","t","i","c"," ","A","u","r","a">>, <<"L","o","r","e"," ","K","n","o","w","l","e","d","g","e">>>>,
        active |-> <<<<"I","n","s","p","i","r","e">>, <<"S","o","o","t","h","i","n","g"," ","S","o","n","g">>, <<"D","i","s","t","r","a","c","t","i","o","n">>>>,
        special |-> <<<<"E","p","i","c"," ","P","e","r","f","o","r","m","a","n","c","e">>>>] @@
    ranger :> [passive |-> <<<<"T","r","a","c","k">>, <<"A","n","i","m","a","l"," ","E","m","p","a","t","h","y">>>>,
        active |-> <<<<"P","r","e","c","i","s","e"," ","S","h","o","t">>, <<"A","n","i","m","a","l"," ","C","o","m","p","a","n","i","o","n">>, <<"N","a","t","u","r","e","'","s"," ","E","y","e">>>>,
        special |-> <<<<"O","n","e"," ","W","i","t","h"," ","N","a","t","u","r","e">>>>] @@
    paladin :> [passive |-> <<<<"D","i","v","i","n","e"," ","S","e","n","s","e">>, <<"A","u","r","a"," ","o","f"," ","P","r","o","t","e","c","t","i","o","n">>>>,
        active |-> <<<<"L","a","y"," ","o","n"," ","H","a","n","d","s">>, <<"D","i","v","i","n","e"," ","S","m","i","t","e">>, <<"S","a","c","r","e","d"," ","O","a","t","h">>>>,
        special |-> <<<<"H","o","l","y"," ","A","v","e","n","g","e","r">>>>] @@
    druid :> [passive |-> <<<<"N","a","t","u","r","e"," ","B","o","n","d">>, <<"W","i","l","d"," ","E","m","p","a","t","h","y">>>>,
        active |-> <<<<"W","i","l","d"," ","S","h","a","p","e">>, <<"E","n","t","a","n","g","l","e">>, <<"S","p","e","a","k"," ","w","i","t","h"," ","A","n","i","m","a","l","s">>>>,
        special |-> <<<<"N","a","t","u","r","e","'","s"," ","W","r","a","t","h">>>>] @@
    monk :> [passive |-> <<<<"M","e","d","i","t","a","t","i","o","n">>, <<"U","n","a","r","m","o","r","e","d"," ","D","e","f","e","n","s","e">>>>,
        active |-> <<<<"F","l","u","r","r","y"," ","o","f"," ","B","l","o","w","s">>, <<"S","t","u","n","n","i","n","g"," ","S","t","r","i","k","e">>, <<"D","e","f","l","e","c","t"," ","M","i","s","s","i","l","e","s">>>>,
        special |-> <<<<"K","i"," ","F","o","c","u","s">>>>] @@
    sorcerer :> [passive |-> <<<<"M","a","g","i","c","a","l"," ","H","e","r","i","t","a","g","e">>, <<"E","l","e","m","e","n","t","a","l"," ","A","f","f","i","n","i","t","y">>>>,
        active |-> <<<<"W","i","l","d"," ","M","a","g","i","c">>, <<"M","e","t","a","m","a","g","i","c">>, <<"A","r","c","a","n","e"," ","B","l","a","s","t">>>>,
        special |-> <<<<"S","o","r","c","e","r","o","u","s"," ","O","r","i","g","i","n">>>>]
\* get_default_abilities(character_class): the basic lists, each extended by the
\* list of the class when the lower-cased class is one of class_abilities.
get_default_abilities(character_class) ==
    IF str_lower(character_class) \in DOMAIN class_abilities
    THEN [key \in DOMAIN basic_abilities |->
            basic_abilities[key] \o class_abilities[str_lower(character_class)][key]]
    ELSE basic_abilities

\* schemas/character.py, CharacterClass: the classes POST /characters accepts
\* ("mage" has no entry in CLASS_LEVEL_BONUSES).
mage == <<"m","a","g","e">>
CharacterClass == {warrior, mage, rogue, cleric, ranger}

\* api/characters.py, create_character: the row it inserts. The owner is stored
\* under user_id and the stats under attributes, so the row has no created_by
\* (read as None, "" here) and no stats (read as {}).
create_character(name, character_class) ==
    [name |-> name, character_class |-> character_class, level |-> 1,
     experience |-> 0,
     stats |-> EmptyDict, abilities |-> get_default_abilities(character_class),
     created_by |-> "", updated_at |-> 0]

\* Characters made by POST /characters, per character id.
CreatedRows ==
    [c \in CharacterIds |->
        IF c = 1 THEN {create_character("Gandalf", mage), create_character("Boromir", warrior)}
        ELSE {create_character("Robin", ranger)}]

VARIABLES
    characters,     \* the characters table: id -> row, or NoRow
    clock,          \* the database's now()
    writes,         \* history: the ids of the rows updated, in the order of the updates
    read_at,        \* history, per caller: how many updates had been made at its select
    notifications,  \* the create_character_notification calls made, in order
    started,        \* requests made so far
    pc,             \* per caller: idle, select, update, done
    args,           \* per caller: character_id and xp_amount of its add_experience call
    character,      \* per caller: the row add_experience read (line 46)
    work,           \* per caller: the locals computed from it (lines 47-81)
    result,         \* per caller: what add_experience returned
    response,       \* per caller: the endpoint's HTTP status, 0 while it has none
    returned        \* the last call of a function that reads no state: its
                    \* arguments and its value, or None

vars == <<characters, clock, writes, read_at, notifications, started, pc, args,
          character, work, result, response, returned>>

\* What add_experience and its callers read and write.
progression == <<characters, clock, writes, read_at, notifications, started, pc, args,
                 character, work, result, response>>

\* Nothing has been called yet.
Idle ==
    /\ clock = 0
    /\ writes = <<>>
    /\ read_at = [p \in Callers |-> 0]
    /\ notifications = <<>>
    /\ started = 0
    /\ pc = [p \in Callers |-> "idle"]
    /\ args = [p \in Callers |-> None]
    /\ character = [p \in Callers |-> None]
    /\ work = [p \in Callers |-> None]
    /\ result = [p \in Callers |-> None]
    /\ response = [p \in Callers |-> 0]
    /\ returned = None

\* The table holds one of the rows `rows` gives for each id.
TableOf(rows) ==
    /\ characters \in [CharacterIds -> UNION {rows[c] : c \in CharacterIds}]
    /\ \A c \in CharacterIds : characters[c] \in rows[c]

Init == TableOf(InitialRows) /\ Idle

\* A caller may make its next request.
Free(p) == pc[p] \in {"idle", "done"} /\ started < MaxCalls

\* add_experience(character_id, xp_amount) is entered by caller p: the locals of
\* p's previous call are gone.
Begin(p, character_id, xp_amount) ==
    /\ pc' = [pc EXCEPT ![p] = "select"]
    /\ args' = [args EXCEPT ![p] = [character_id |-> character_id,
                                    xp_amount |-> xp_amount]]
    /\ character' = [character EXCEPT ![p] = None]
    /\ work' = [work EXCEPT ![p] = None]
    /\ result' = [result EXCEPT ![p] = None]
    /\ response' = [response EXCEPT ![p] = 0]
    /\ read_at' = [read_at EXCEPT ![p] = 0]

\* A direct call add_experience(character_id, xp_amount).
CallAddExperience ==
    /\ Free("direct")
    /\ \E character_id \in CharacterIds, xp_amount \in Amounts :
          Begin("direct", character_id, xp_amount)
    /\ started' = started + 1
    /\ UNCHANGED <<characters, clock, writes, notifications, returned>>

\* A slip of lines 53-58: the ownership check is missing.
Rejection_NoOwnership(row, current_user, xp_amount) ==
    IF row = NoRow THEN 404
    ELSE IF xp_amount <= 0 THEN 400
    ELSE 0

\* The status add_character_experience answers with before it calls the
\* service (api/character_progression.py lines 40-67), or 0 when the request
\* passes its checks.
Rejection(row, current_user, xp_amount) ==
    IF row = NoRow THEN 404
    ELSE IF row.created_by # current_user.id /\ current_user.role # "admin" THEN 403
    ELSE IF xp_amount <= 0 THEN 400
    ELSE 0

\* The endpoint raises HTTPException(status) without calling add_experience.
Reject(p, status) ==
    /\ pc' = [pc EXCEPT ![p] = "done"]
    /\ args' = [args EXCEPT ![p] = None]
    /\ character' = [character EXCEPT ![p] = None]
    /\ work' = [work EXCEPT ![p] = None]
    /\ result' = [result EXCEPT ![p] = None]
    /\ response' = [response EXCEPT ![p] = status]
    /\ read_at' = [read_at EXCEPT ![p] = 0]

\* POST /character-progression/{character_id}/experience with xp_amount in its
\* body, sent by current_user, up to its call of add_experience.
add_character_experience(character_id, xp_amount, current_user) ==
    /\ Free("http")
    /\ IF Rejection(characters[character_id], current_user, xp_amount) = 0
       THEN Begin("http", character_id, xp_amount)
       ELSE Reject("http", Rejection(characters[character_id], current_user, xp_amount))
    /\ started' = started + 1
    /\ UNCHANGED <<characters, clock, writes, notifications, returned>>

\* Some request to that endpoint.
AddCharacterExperience ==
    \E character_id \in CharacterIds, xp_amount \in Amounts, current_user \in Users :
        add_character_experience(character_id, xp_amount, current_user)

\* The bodies of the requests POST /character-progression/{id}/reward is sent:
\* action_type, difficulty and success, each with the value random.uniform
\* returns (in thousandths) while the request is served. One has no action_type.
RewardRequests ==
    {<<roleplay, minor, TRUE, 1000>>, <<combat, boss, TRUE, 1050>>,
     <<<<>>, medium, TRUE, 1000>>}

\* The status add_action_reward answers with before it calls the service
\* (api/character_progression.py lines 99-128), or 0 when the request passes.
RewardRejection(row, current_user, action_type) ==
    IF row = NoRow THEN 404
    ELSE IF row.created_by # current_user.id /\ current_user.role # "admin" THEN 403
    ELSE IF action_type = <<>> THEN 400
    ELSE 0

\* POST /character-progression/{character_id}/reward with reward_data, sent by
\* current_user, up to its call of add_experience with the amount
\* calculate_xp_reward returns (lines 131-134).
add_action_reward(character_id, reward_data, current_user) ==
    /\ Free("http")
    /\ IF RewardRejection(characters[character_id], current_user, reward_data[1]) = 0
       THEN Begin("http", character_id,
                  calculate_xp_reward(reward_data[1], reward_data[2],
                                      reward_data[3], reward_data[4]))
       ELSE Reject("http", RewardRejection(characters[character_id], current_user,
                                           reward_data[1]))
    /\ started' = started + 1
    /\ UNCHANGED <<characters, clock, writes, notifications, returned>>

\* Some request to that endpoint.
AddActionReward ==
    \E character_id \in CharacterIds, reward_data \in RewardRequests,
       current_user \in Users :
        add_action_reward(character_id, reward_data, current_user)

\* What the endpoint answers once add_experience has returned r
\* (api/character_progression.py lines 72-78); a direct caller has no status.
StatusOf(p, r) == IF p = "http" THEN (IF r.success THEN 200 ELSE 500) ELSE 0

\* add_experience returns r to caller p.
Return(p, r) ==
    /\ pc' = [pc EXCEPT ![p] = "done"]
    /\ result' = [result EXCEPT ![p] = r]
    /\ response' = [response EXCEPT ![p] = StatusOf(p, r)]

\* Lines 40-81: the select, and on a row the computation of the update.
Select(p) ==
    /\ pc[p] = "select"
    /\ IF characters[args[p].character_id] = NoRow
       THEN /\ Return(p, [success |-> FALSE, error |-> "Character not found"])
            /\ UNCHANGED <<character, work, read_at>>
       ELSE /\ character' = [character EXCEPT ![p] = characters[args[p].character_id]]
            /\ read_at' = [read_at EXCEPT ![p] = Len(writes)]
            /\ work' = [work EXCEPT ![p] =
                          Compute(characters[args[p].character_id], args[p].xp_amount)]
            /\ pc' = [pc EXCEPT ![p] = "update"]
            /\ UNCHANGED <<result, response>>
    /\ UNCHANGED <<characters, clock, writes, notifications, started, args, returned>>

\* A slip of the update: the experience column is not written.
UpdatedRow_KeepsExperience(row, update_data, now) ==
    [k \in DOMAIN row |->
        IF k = "updated_at" THEN now
        ELSE IF k \in DOMAIN update_data \ {"experience"} THEN update_data[k]
        ELSE row[k]]

\* update(update_data) on one row: the update's columns are overwritten,
\* updated_at is set by the database.
UpdatedRow(row, update_data, now) ==
    [k \in DOMAIN row |->
        IF k = "updated_at" THEN now
        ELSE IF k \in DOMAIN update_data THEN update_data[k] ELSE row[k]]

\* A slip of line 84: the update without .eq("id", character_id).
UpdateWhereId_NoFilter(table, character_id, update_data, now) ==
    [c \in DOMAIN table |->
        IF table[c] = NoRow THEN NoRow ELSE UpdatedRow(table[c], update_data, now)]

\* Line 84: update(update_data).eq("id", character_id) on the table.
UpdateWhereId(table, character_id, update_data, now) ==
    [table EXCEPT ![character_id] = UpdatedRow(@, update_data, now)]

\* Lines 94-103: one create_character_notification call per level-up record
\* (title and message are texts formatted from the name, the level and the record).
LevelUpNotifications(row, character_id, level_ups) ==
    IF level_ups # <<>> /\ row.created_by # ""
    THEN [i \in 1..Len(level_ups) |->
            [user_id |-> row.created_by,
             character_id |-> character_id,
             name |-> row.name,
             level |-> level_ups[i].level,
             priority |-> "high"]]
    ELSE <<>>

\* Lines 105-113: the success result; row is result.data[0] of the update.
SuccessResult(row, xp_amount, w) ==
    [success |-> TRUE,
     character |-> row,
     xp_gained |-> xp_amount,
     xp_total |-> w.new_xp_total,
     previous_level |-> w.current_level,
     new_level |-> w.new_level,
     level_ups |-> IF w.level_ups # <<>> THEN List(w.level_ups) ELSE None]

\* A slip of lines 84-103: the notifications are sent before the update's result
\* is looked at.
Update_NotifiesFirst(p) ==
    /\ pc[p] = "update"
    /\ notifications' = notifications \o
          LevelUpNotifications(character[p], args[p].character_id, work[p].level_ups)
    /\ IF characters[args[p].character_id] = NoRow
       THEN /\ Return(p, [success |-> FALSE, error |-> "Failed to update character"])
            /\ UNCHANGED <<characters, clock, writes>>
       ELSE /\ clock' = clock + 1
            /\ writes' = Append(writes, args[p].character_id)
            /\ characters' = UpdateWhereId(characters, args[p].character_id,
                                           work[p].update_data, clock + 1)
            /\ Return(p, SuccessResult(characters'[args[p].character_id],
                                       args[p].xp_amount, work[p]))
    /\ UNCHANGED <<started, args, character, work, read_at, returned>>

\* Lines 84-113: the update; when no row comes back (the character is gone) the
\* call fails, else it sends its notifications and returns. The notifications
\* go to a table add_experience never reads, so they are sent in the same step.
Update(p) ==
    /\ pc[p] = "update"
    /\ IF characters[args[p].character_id] = NoRow
       THEN /\ Return(p, [success |-> FALSE, error |-> "Failed to update character"])
            /\ UNCHANGED <<characters, clock, writes, notifications>>
       ELSE /\ clock' = clock + 1
            /\ writes' = Append(writes, args[p].character_id)
            /\ characters' = UpdateWhereId(characters, args[p].character_id,
                                           work[p].update_data, clock + 1)
            /\ notifications' = notifications \o
                  LevelUpNotifications(character[p], args[p].character_id,
                                       work[p].level_ups)
            /\ Return(p, SuccessResult(characters'[args[p].character_id],
                                       args[p].xp_amount, work[p]))
    /\ UNCHANGED <<started, args, character, work, read_at, returned>>

\* Lines 115-117 without the except clause: the exception leaves add_experience
\* and no result is returned.
Raise_Propagates(p) ==
    /\ pc[p] \in {"select", "update"}
    /\ pc' = [pc EXCEPT ![p] = "done"]
    /\ response' = [response EXCEPT ![p] = IF p = "http" THEN 500 ELSE 0]
    /\ UNCHANGED <<characters, clock, writes, read_at, notifications, started, args,
                   character, work, result, returned>>

\* A slip of lines 84-117: the exception comes once the update is stored (as if
\* something between lines 91 and 103 raised), and the call returns the error.
Raise_AfterWrite(p) ==
    /\ pc[p] = "update"
    /\ characters[args[p].character_id] # NoRow
    /\ clock' = clock + 1
    /\ writes' = Append(writes, args[p].character_id)
    /\ characters' = UpdateWhereId(characters, args[p].character_id,
                                   work[p].update_data, clock + 1)
    /\ Return(p, [success |-> FALSE, error |-> "exception"])
    /\ UNCHANGED <<read_at, notifications, started, args, character, work, returned>>

\* Lines 115-117: the client raises on the select or on the update (the request
\* did not reach the database); add_experience returns the error.
Raise(p) ==
    /\ pc[p] \in {"select", "update"}
    /\ Return(p, [success |-> FALSE, error |-> "exception"])
    /\ UNCHANGED <<characters, clock, writes, read_at, notifications, started, args,
                   character, work, returned>>

\* DELETE /admin/characters/{character_id} (api/admin.py): the row is gone.
DeleteCharacter(character_id) ==
    /\ characters[character_id] # NoRow
    /\ characters' = [characters EXCEPT ![character_id] = NoRow]
    /\ UNCHANGED <<clock, writes, read_at, notifications, started, pc, args, character,
                   work, result, response, returned>>

Next ==
    \/ CallAddExperience
    \/ AddCharacterExperience
    \/ AddActionReward
    \/ \E p \in Callers : Select(p)
    \/ \E p \in Callers : Update(p)
    \/ \E p \in Callers : Raise(p)
    \/ \E character_id \in Deleted : DeleteCharacter(character_id)

Spec == Init /\ [][Next]_vars

\* No call of add_experience is in flight.
Quiet == \A p \in Callers : pc[p] \in {"idle", "done"}

\* The same requests made one after the other: a call begins only when no
\* other call is in flight.
SeqNext ==
    \/ Quiet /\ CallAddExperience
    \/ Quiet /\ AddCharacterExperience
    \/ Quiet /\ AddActionReward
    \/ \E p \in Callers : Select(p)
    \/ \E p \in Callers : Update(p)
    \/ \E p \in Callers : Raise(p)
    \/ \E character_id \in Deleted : DeleteCharacter(character_id)

SeqSpec == Init /\ [][SeqNext]_vars

\* The same calls, one after the other, on characters made by POST /characters.
CreatedInit == TableOf(CreatedRows) /\ Idle

CreatedSpec == CreatedInit /\ [][SeqNext]_vars

\* A call calculate_xp_reward(action_type, difficulty, success) in which
\* random.uniform returns variation.
CalculateXpReward ==
    /\ returned = None
    /\ \E action_type \in ActionTypes, difficulty \in Difficulties,
          success \in BOOLEAN, variation \in Variations :
          returned' = [action_type |-> action_type, difficulty |-> difficulty,
                       success |-> success, variation |-> variation,
                       base_xp |-> BaseXp(action_type, difficulty),
                       xp |-> calculate_xp_reward(action_type, difficulty, success,
                                                  variation)]
    /\ UNCHANGED progression

\* A call _get_ability_type(ability_id, character_class).
GetAbilityType ==
    /\ returned = None
    /\ \E ability_id \in AbilityIds, character_class \in {warrior, wizard} :
          returned' = [ability_id |-> ability_id, character_class |-> character_class,
                       ability_type |-> _get_ability_type(ability_id, character_class)]
    /\ UNCHANGED progression

\* The stats and abilities _process_level_up is called with: those of
\* test_character, none, and a stats map with one key.
StatsArguments == {Aragorn.stats, EmptyDict, "strength" :> 15}
AbilitiesArguments == {Aragorn.abilities, EmptyDict}

\* What a call _process_level_up(character, new_level, character_class, stats,
\* abilities) leaves behind: its arguments as the caller passed them, the
\* caller's stats dict and abilities dict as they are after the call (the
\* function never assigns to a key of stats; the caller's lists are read off
\* the heap after the call), and the level_up_data returned.
ProcessLevelUpOutcome(new_level, character_class, stats, abilities, out) ==
    [new_level |-> new_level, character_class |-> character_class,
     stats |-> stats, abilities |-> abilities,
     stats_after |-> stats,
     abilities_after |-> Deref(out.heap, HeapOf(abilities).refs),
     level_up_data |-> Observed(out.heap, <<out.level_up_data>>)[1]]

\* A call _process_level_up(character, new_level, character_class, stats,
\* abilities), as test_process_level_up makes it.
ProcessLevelUp ==
    /\ returned = None
    /\ \E new_level \in {2, 3, 5, 11}, character_class \in {warrior, druid},
          stats \in StatsArguments, abilities \in AbilitiesArguments :
          returned' = ProcessLevelUpOutcome(
                          new_level, character_class, stats, abilities,
                          _process_level_up(HeapOf(abilities).heap, new_level,
                                            character_class, stats,
                                            HeapOf(abilities).refs))
    /\ UNCHANGED progression

\* One call of a function of the service that reads no state (what a call
\* returns depends on no call before it).
FunctionNext == CalculateXpReward \/ GetAbilityType \/ ProcessLevelUp

FunctionSpec == Init /\ [][FunctionNext]_vars

(***************************************************************************)
(* Properties.                                                             *)
(***************************************************************************)
\* Caller p's call of add_experience has returned success.
Succeeded(p) == pc[p] = "done" /\ result[p] # None /\ result[p].success

\* Caller p's call of add_experience has returned a failure.
Failed(p) == pc[p] = "done" /\ result[p] # None /\ ~result[p].success

\* The highest level of the Level Threshold Table.
MaxTableLevel ==
    CHOOSE l \in DOMAIN LEVEL_XP_REQUIREMENTS :
        \A m \in DOMAIN LEVEL_XP_REQUIREMENTS : m <= l

\* C1: a successful add_experience call with xp_amount > 0 returns xp_gained =
\* xp_amount and xp_total = the experience of the row it read + xp_amount, and
\* the row its update stored holds exactly that xp_total as experience.
C1_XpTotalExact ==
    \A p \in Callers :
        Succeeded(p) /\ args[p].xp_amount > 0 =>
            /\ result[p].xp_gained = args[p].xp_amount
            /\ result[p].xp_total = character[p].experience + args[p].xp_amount
            /\ result[p].character.experience = result[p].xp_total

\* C1's case: XP was added to a character that already had some.
C1_Witness ==
    \E p \in Callers :
        /\ Succeeded(p) /\ args[p].xp_amount > 0
        /\ character[p].experience > 0
        /\ characters[args[p].character_id] = result[p].character

\* C2 as claimed: every add_experience call with xp_amount <= 0 that has returned
\* has failed, and has stored no row (a call that updates the row returns it as
\* "character").
C2_NonPositiveAmountFails ==
    \A p \in Callers :
        pc[p] = "done" /\ args[p] # None /\ args[p].xp_amount <= 0 =>
            /\ ~result[p].success
            /\ "character" \notin DOMAIN result[p]

\* C3: no stored level and no returned new_level exceeds the highest level of
\* the Level Threshold Table.
C3_LevelCapped ==
    /\ \A c \in CharacterIds :
          characters[c] # NoRow => characters[c].level <= MaxTableLevel
    /\ \A p \in Callers : Succeeded(p) => result[p].new_level <= MaxTableLevel

\* C3's case: a character at the table's highest level whose experience is
\* beyond the last threshold by more than a whole award of 200000.
C3_Witness ==
    \E c \in CharacterIds :
        /\ characters[c] # NoRow
        /\ characters[c].level = MaxTableLevel
        /\ characters[c].experience > LEVEL_XP_REQUIREMENTS[MaxTableLevel] + 200000

\* C4: every successful call returns new_level >= previous_level, and when the
\* calls are made one after the other no step lowers the stored level of a
\* character.
C4_LevelNeverDecreases ==
    /\ [](\A p \in Callers :
            Succeeded(p) => result[p].new_level >= result[p].previous_level)
    /\ [][\A c \in CharacterIds :
            characters[c] # NoRow /\ characters'[c] # NoRow =>
                characters'[c].level >= characters[c].level]_vars

\* C4's case: a character that gained a level in one call keeps it through a
\* later call that gains none.
C4_Witness ==
    \E p \in Callers :
        /\ Succeeded(p)
        /\ result[p].new_level = result[p].previous_level
        /\ result[p].previous_level > 1
        /\ Len(writes) = 2 /\ writes[1] = writes[2]
        /\ writes[1] = args[p].character_id
        /\ characters[args[p].character_id] = result[p].character

\* The table's levels above level `from` whose threshold is <= total.
LevelsReached(from, total) ==
    {l \in DOMAIN LEVEL_XP_REQUIREMENTS :
        l > from /\ LEVEL_XP_REQUIREMENTS[l] <= total}

\* The largest of a non-empty set of levels.
Highest(levels) == CHOOSE l \in levels : \A m \in levels : m <= l

\* C5: a successful call on a character at level L0 returns as new_level the
\* largest table level above L0 whose threshold is <= the new XP total, or L0
\* when there is none; level_ups is None exactly when new_level = previous_level.
C5_NewLevelIsHighestReached ==
    \A p \in Callers :
        Succeeded(p) =>
            /\ result[p].previous_level = character[p].level
            /\ result[p].new_level =
                 IF LevelsReached(character[p].level, result[p].xp_total) = {}
                 THEN character[p].level
                 ELSE Highest(LevelsReached(character[p].level, result[p].xp_total))
            /\ (result[p].level_ups = None) <=>
                 (result[p].new_level = result[p].previous_level)

\* C5's case: the new total is exactly the threshold of the level gained.
C5_Witness ==
    \E p \in Callers :
        /\ Succeeded(p)
        /\ result[p].new_level > result[p].previous_level
        /\ result[p].xp_total = LEVEL_XP_REQUIREMENTS[result[p].new_level]

\* list1 is a prefix of list2.
IsPrefix(list1, list2) ==
    Len(list1) <= Len(list2) /\ SubSeq(list2, 1, Len(list1)) = list1

\* Level-up record `this` builds on the record `prev` before it: each stat is the
\* previous record's plus this record's change of it, the change's "old" is the
\* previous record's value, and each ability list extends the previous record's.
BuildsOn(this, prev) ==
    /\ DOMAIN this.new_stats = DOMAIN prev.new_stats
    /\ \A s \in DOMAIN this.new_stats :
          IF s \in DOMAIN this.stat_changes
          THEN /\ this.stat_changes[s].old = prev.new_stats[s]
               /\ this.stat_changes[s].new = this.new_stats[s]
          ELSE this.new_stats[s] = prev.new_stats[s]
    /\ DOMAIN this.new_abilities = DOMAIN prev.new_abilities
    /\ \A c \in DOMAIN this.new_abilities :
          IsPrefix(prev.new_abilities[c], this.new_abilities[c])

\* C6: a call that crosses k >= 2 thresholds returns exactly k level-up records,
\* for the levels previous_level + 1 .. new_level in ascending order, and each
\* record after the first builds on the record before it.
C6_RecordsChain ==
    \A p \in Callers :
        Succeeded(p) /\ result[p].new_level >= result[p].previous_level + 2 =>
            /\ result[p].level_ups # None
            /\ Len(result[p].level_ups.items) =
                 result[p].new_level - result[p].previous_level
            /\ \A i \in 1..Len(result[p].level_ups.items) :
                  result[p].level_ups.items[i].level = result[p].previous_level + i
            /\ \A i \in 2..Len(result[p].level_ups.items) :
                  BuildsOn(result[p].level_ups.items[i],
                           result[p].level_ups.items[i - 1])

\* C6's case: a later record of one call changes a stat that an earlier record
\* of the call changed, so its "old" is not the value the call read.
C6_Witness ==
    \E p \in Callers :
        /\ Succeeded(p) /\ result[p].new_level >= result[p].previous_level + 2
        /\ \E i \in 2..Len(result[p].level_ups.items) :
              \E s \in DOMAIN result[p].level_ups.items[i].stat_changes :
                 /\ s \in DOMAIN character[p].stats
                 /\ result[p].level_ups.items[i].stat_changes[s].old
                       > character[p].stats[s]

ImprovedCombatTechniques ==
    <<"I","m","p","r","o","v","e","d"," ","C","o","m","b","a","t"," ",
      "T","e","c","h","n","i","q","u","e","s">>

\* The scenario of C7: the call read a level-1 warrior with experience 0 that
\* has a strength stat and passive abilities without the level-2 ability, and
\* adds 1050 XP.
C7_Scenario(p) ==
    /\ Succeeded(p)
    /\ args[p].xp_amount = 1050
    /\ character[p].level = 1 /\ character[p].experience = 0
    /\ str_lower(character[p].character_class) = warrior
    /\ "strength" \in DOMAIN character[p].stats
    /\ "passive" \in DOMAIN character[p].abilities
    /\ ~list_contains(ImprovedCombatTechniques, character[p].abilities["passive"])

\* C7: in that scenario new_level = 2, xp_total = 1050, and there is exactly one
\* level-up record, for level 2, whose stat changes hold strength +1 and whose
\* ability changes are one entry: passive, "Improved Combat Techniques".
C7_WarriorReachesLevel2 ==
    \A p \in Callers :
        C7_Scenario(p) =>
            /\ result[p].new_level = 2
            /\ result[p].xp_total = 1050
            /\ result[p].level_ups # None
            /\ Len(result[p].level_ups.items) = 1
            /\ result[p].level_ups.items[1].level = 2
            /\ "strength" \in DOMAIN result[p].level_ups.items[1].stat_changes
            /\ result[p].level_ups.items[1].stat_changes["strength"].new =
                 result[p].level_ups.items[1].stat_changes["strength"].old + 1
            /\ result[p].level_ups.items[1].stat_changes["strength"].change = <<"+", 1>>
            /\ Len(result[p].level_ups.items[1].ability_changes) = 1
            /\ result[p].level_ups.items[1].ability_changes[1].type = "passive"
            /\ result[p].level_ups.items[1].ability_changes[1].name =
                 ImprovedCombatTechniques

\* C7's case: the scenario has run, and its result is what the table holds.
C7_Witness ==
    \E p \in Callers :
        /\ C7_Scenario(p)
        /\ characters[args[p].character_id] = result[p].character
        /\ result[p].character.level = 2

\* The levels of the level-up records a call returned.
LevelsOf(r) ==
    IF r.level_ups = None THEN {}
    ELSE {r.level_ups.items[i].level : i \in 1..Len(r.level_ups.items)}

\* Callers p and q have both returned success for the same character after
\* reading the same stored state of it, and q's update came after p's.
Raced(p, q) ==
    /\ p # q
    /\ Succeeded(p) /\ Succeeded(q)
    /\ args[p].character_id = args[q].character_id
    /\ character[p] = character[q]
    /\ result[q].character.updated_at > result[p].character.updated_at

\* C8: when two calls for one character both read the same state, each
\* resolves its level-ups from that state (the levels both reach are processed
\* by both), and the later update overwrites the earlier: the stored
\* experience is the state's plus the later amount only, which for positive
\* amounts is less than initial + amount1 + amount2, and a level only the
\* earlier call reached is dropped when the later call writes a level.
C8_LostUpdate ==
    \A p, q \in Callers :
        Raced(p, q) =>
            /\ result[p].previous_level = character[p].level
            /\ result[q].previous_level = character[p].level
            /\ result[p].xp_total = character[p].experience + args[p].xp_amount
            /\ result[q].xp_total = character[p].experience + args[q].xp_amount
            /\ \A l \in DOMAIN LEVEL_XP_REQUIREMENTS :
                  (l > character[p].level /\ l <= result[p].new_level
                      /\ l <= result[q].new_level)
                  => l \in LevelsOf(result[p]) \cap LevelsOf(result[q])
            /\ characters[args[p].character_id] # NoRow =>
                  /\ characters[args[p].character_id].experience =
                        character[p].experience + args[q].xp_amount
                  /\ args[p].xp_amount > 0 =>
                        characters[args[p].character_id].experience <
                            character[p].experience + args[p].xp_amount
                                + args[q].xp_amount
                  /\ result[q].new_level > character[p].level =>
                        characters[args[p].character_id].level = result[q].new_level

\* C8's case: two racing calls with positive amounts, a level processed by
\* both, a level only the earlier call reached that the table has lost, and
\* stored experience below the sum.
C8_Witness ==
    \E p, q \in Callers :
        /\ Raced(p, q)
        /\ args[p].xp_amount > 0 /\ args[q].xp_amount > 0
        /\ LevelsOf(result[p]) \cap LevelsOf(result[q]) # {}
        /\ characters[args[p].character_id] # NoRow
        /\ characters[args[p].character_id].level < result[p].new_level
        /\ characters[args[p].character_id].experience <
              character[p].experience + args[p].xp_amount + args[q].xp_amount

\* What add_experience(row's id, xp_amount) returns when it runs alone on row
\* and its update is stamped now; w is what it computes from row.
ResultAlone(row, xp_amount, now, w) ==
    SuccessResult(UpdatedRow(row, w.update_data, now), xp_amount, w)

\* How many of the updates made so far were of character c.
WritesOf(c) == Cardinality({i \in 1..Len(writes) : writes[i] = c})

\* C9: a successful call whose character no other call has written, whatever
\* other calls for other characters did between its steps, read the
\* character's initial state, returned what it returns when run alone on that
\* state, and left the character's row as that result holds it (unless the row
\* was deleted afterwards).
C9_OtherCharactersDoNotInterfere ==
    \A p \in Callers :
        Succeeded(p) /\ WritesOf(args[p].character_id) = 1 =>
            /\ character[p] \in InitialRows[args[p].character_id]
            /\ result[p] = ResultAlone(character[p], args[p].xp_amount,
                                       result[p].character.updated_at,
                                       Compute(character[p], args[p].xp_amount))
            /\ characters[args[p].character_id] \in {NoRow, result[p].character}

\* C9's case: two calls for different characters, both levelling up, each of
\* which read before the other wrote and wrote after the other read.
C9_Witness ==
    \E p, q \in Callers :
        /\ Succeeded(p) /\ Succeeded(q)
        /\ args[p].character_id # args[q].character_id
        /\ read_at[p] = 0 /\ read_at[q] = 0 /\ Len(writes) = 2
        /\ result[p].level_ups # None /\ result[q].level_ups # None
        /\ characters[args[p].character_id] = result[p].character
        /\ characters[args[q].character_id] = result[q].character

\* The columns of a row that only a level-up writes.
LevelColumns(row) == [level |-> row.level, stats |-> row.stats, abilities |-> row.abilities]

\* The step is caller p's successful update.
UpdateBy(p) == pc[p] = "update" /\ pc'[p] = "done" /\ result'[p].success

\* C10: the update of a call that crossed no threshold holds experience and
\* updated_at only, and its write leaves the row's level, stats and abilities as
\* they were; the update of a call with new_level > previous level holds level,
\* stats and abilities too, and one write stores them together with experience.
C10_UpdateFrame ==
    /\ [](\A p \in Callers :
            work[p] # None =>
                DOMAIN work[p].update_data =
                    IF work[p].new_level > work[p].current_level
                    THEN {"experience", "updated_at", "level", "stats", "abilities"}
                    ELSE {"experience", "updated_at"})
    /\ [][\A p \in Callers :
            UpdateBy(p) =>
                /\ Len(writes') = Len(writes) + 1
                /\ characters'[args[p].character_id].experience = work[p].new_xp_total
                /\ LevelColumns(characters'[args[p].character_id]) =
                     IF work[p].new_level > work[p].current_level
                     THEN [level |-> work[p].new_level,
                           stats |-> work[p].update_data.stats,
                           abilities |-> work[p].update_data.abilities]
                     ELSE LevelColumns(characters[args[p].character_id])]_vars

\* C10's case: one call has written experience alone, another a level-up.
C10_Witness ==
    \E p, q \in Callers :
        /\ Succeeded(p) /\ Succeeded(q)
        /\ args[p].character_id # args[q].character_id
        /\ result[p].new_level = result[p].previous_level /\ args[p].xp_amount > 0
        /\ characters[args[p].character_id] = result[p].character
        /\ LevelColumns(result[p].character) = LevelColumns(character[p])
        /\ result[p].character.experience > character[p].experience
        /\ result[q].new_level > result[q].previous_level
        /\ characters[args[q].character_id] = result[q].character
        /\ LevelColumns(result[q].character) # LevelColumns(character[q])

\* The notifications sent by the step.
Sent == SubSeq(notifications', Len(notifications) + 1, Len(notifications'))

C12_ExperienceNeverDecreases ==
    [][\A p \in Callers :
          UpdateBy(p) /\ args[p].xp_amount > 0 =>
              characters'[args[p].character_id].experience >=
                  characters[args[p].character_id].experience]_vars

\* Every stat of `before` is a stat of `after`, with a value at least as large.
NotLowered(before, after) ==
    \A s \in DOMAIN before : s \in DOMAIN after /\ after[s] >= before[s]

\* Every bonus of the Class Bonus Table is positive.
BonusesArePositive ==
    \A c \in DOMAIN CLASS_LEVEL_BONUSES :
        \A l \in DOMAIN CLASS_LEVEL_BONUSES[c] :
            \A s \in DOMAIN CLASS_LEVEL_BONUSES[c][l].stats :
                CLASS_LEVEL_BONUSES[c][l].stats[s] > 0

\* C13: no bonus of the table is negative; every stat change of every level-up
\* record has new >= old, every record's stats are >= the stats the call read
\* and >= the record before it; and over a sequence of calls no step lowers a
\* stored stat.
C13_StatsNeverLowered ==
    /\ [](/\ BonusesArePositive
          /\ \A p \in Callers :
                Succeeded(p) /\ result[p].level_ups # None =>
                    \A i \in 1..Len(result[p].level_ups.items) :
                        /\ \A s \in DOMAIN result[p].level_ups.items[i].stat_changes :
                              result[p].level_ups.items[i].stat_changes[s].new >=
                                  result[p].level_ups.items[i].stat_changes[s].old
                        /\ NotLowered(character[p].stats,
                                      result[p].level_ups.items[i].new_stats)
                        /\ i > 1 => NotLowered(result[p].level_ups.items[i - 1].new_stats,
                                               result[p].level_ups.items[i].new_stats))
    /\ [][\A c \in CharacterIds :
            characters[c] # NoRow /\ characters'[c] # NoRow =>
                NotLowered(characters[c].stats, characters'[c].stats)]_vars

\* C13's case: the second of two calls on a character has raised a stat that
\* the first had raised already.
C13_Witness ==
    \E p \in Callers :
        /\ Succeeded(p) /\ result[p].level_ups # None
        /\ Len(writes) = 2 /\ writes[1] = writes[2]
        /\ writes[1] = args[p].character_id
        /\ character[p].level > 1
        /\ \E s \in DOMAIN character[p].stats :
              /\ result[p].character.stats[s] > character[p].stats[s]
              /\ \E r \in InitialRows[args[p].character_id] :
                    /\ s \in DOMAIN r.stats
                    /\ character[p].stats[s] > r.stats[s]

\* No element of list occurs in it twice.
NoDuplicates(list) ==
    \A i, j \in 1..Len(list) : list[i] = list[j] => i = j

\* The number of abilities in all the lists of abilities.
Total(abilities) ==
    IF DOMAIN abilities = {} THEN 0
    ELSE Len(abilities["passive"]) + Len(abilities["active"]) + Len(abilities["special"])

\* The number of ability changes in the level-up records level_ups.
RECURSIVE Recorded(_)
Recorded(level_ups) ==
    IF level_ups = <<>> THEN 0
    ELSE Len(Head(level_ups).ability_changes) + Recorded(Tail(level_ups))

\* C14: over a sequence of calls, no stored ability list ever holds an ability
\* twice; every step leaves each stored list a prefix of what it becomes; and
\* the lists a level-up call writes are longer than those it read by exactly
\* the number of ability changes it recorded.
C14_AbilityListsOnlyGrow ==
    /\ [](\A c \in CharacterIds :
            characters[c] # NoRow =>
                \A k \in DOMAIN characters[c].abilities :
                    NoDuplicates(characters[c].abilities[k]))
    /\ [][\A c \in CharacterIds :
            characters[c] # NoRow /\ characters'[c] # NoRow =>
                \A k \in DOMAIN characters[c].abilities :
                    /\ k \in DOMAIN characters'[c].abilities
                    /\ IsPrefix(characters[c].abilities[k],
                                characters'[c].abilities[k])]_vars
    /\ [][\A p \in Callers :
            UpdateBy(p) /\ work[p].level_ups # <<>> =>
                Total(characters'[args[p].character_id].abilities) =
                    Total(character[p].abilities) + Recorded(work[p].level_ups)]_vars

\* C14's case: a call crossed two levels whose bonus is the same ability; the
\* second recorded no ability change and the list holds the ability once.
C14_Witness ==
    \E p \in Callers :
        /\ Succeeded(p) /\ result[p].level_ups # None
        /\ characters[args[p].character_id] = result[p].character
        /\ \E i, j \in 1..Len(result[p].level_ups.items) :
              /\ i < j
              /\ result[p].level_ups.items[i].ability_changes # <<>>
              /\ result[p].level_ups.items[j].ability_changes = <<>>
              /\ "abilities" \in DOMAIN LevelBonuses(character[p].character_class,
                                       result[p].level_ups.items[i].level)
              /\ "abilities" \in DOMAIN LevelBonuses(character[p].character_class,
                                       result[p].level_ups.items[j].level)
              /\ LevelBonuses(character[p].character_class,
                              result[p].level_ups.items[j].level).abilities
                   = LevelBonuses(character[p].character_class,
                                  result[p].level_ups.items[i].level).abilities

\* The Class Bonus Table has no entry for class c (lower-cased) at level l.
NoEntry(c, l) ==
    \/ str_lower(c) \notin DOMAIN CLASS_LEVEL_BONUSES
    \/ l \notin DOMAIN CLASS_LEVEL_BONUSES[str_lower(c)]

\* The stats record i of caller p's result started from: those of the record
\* before it, or for the first record the stats the call read (the defaults of
\* lines 136-145 when it read none).
StatsBefore(p, i) ==
    IF i > 1 THEN result[p].level_ups.items[i - 1].new_stats
    ELSE IF DOMAIN character[p].stats = {} THEN DefaultStats
    ELSE character[p].stats

\* The ability lists a call that read `abilities` works on (lines 148-153).
AbilitiesBefore(abilities) ==
    IF DOMAIN abilities = {} THEN [passive |-> <<>>, active |-> <<>>, special |-> <<>>]
    ELSE abilities

\* C15: a successful call has one record for each level it reached; a record
\* for a level L at which the table has no entry for the character's class is
\* for L, has no stat change and no ability change and leaves the stats as they
\* were; and when no reached level has an entry the row written has the new
\* level and the stats and abilities the call started from.
C15_MissingBonusStillLevels ==
    \A p \in Callers :
        Succeeded(p) /\ result[p].level_ups # None =>
            /\ Len(result[p].level_ups.items) =
                  result[p].new_level - result[p].previous_level
            /\ \A i \in 1..Len(result[p].level_ups.items) :
                  NoEntry(character[p].character_class, result[p].previous_level + i) =>
                      /\ result[p].level_ups.items[i].level = result[p].previous_level + i
                      /\ DOMAIN result[p].level_ups.items[i].stat_changes = {}
                      /\ result[p].level_ups.items[i].ability_changes = <<>>
                      /\ result[p].level_ups.items[i].new_stats = StatsBefore(p, i)
            /\ (\A i \in 1..Len(result[p].level_ups.items) :
                  NoEntry(character[p].character_class, result[p].previous_level + i)) =>
                      /\ result[p].character.level = result[p].new_level
                      /\ result[p].character.stats = StatsBefore(p, 1)
                      /\ result[p].character.abilities =
                            AbilitiesBefore(character[p].abilities)

\* C15's case: one call took a level-1 character of a class the table lacks
\* past level 11, and the row stored has the abilities the call read.
C15_Witness ==
    \E p \in Callers :
        /\ Succeeded(p) /\ result[p].level_ups # None
        /\ str_lower(character[p].character_class) \notin DOMAIN CLASS_LEVEL_BONUSES
        /\ result[p].previous_level = 1 /\ result[p].new_level >= 11
        /\ characters[args[p].character_id] = result[p].character
        /\ result[p].character.abilities = character[p].abilities

\* The error messages add_experience returns.
Errors == {"Character not found", "Failed to update character", "exception"}

\* The step is caller p's add_experience returning "Character not found".
NotFoundBy(p) ==
    /\ pc[p] = "select" /\ pc'[p] = "done"
    /\ ~result'[p].success
    /\ result'[p].error = "Character not found"

\* C16: every call of add_experience that has ended has returned a result:
\* a success, or success = FALSE with an error message and nothing else; a call
\* returns "Character not found" exactly when its select finds no row, and that
\* call writes nothing and sends no notification.
C16_FailuresAreResults ==
    /\ [](\A p \in Callers :
            pc[p] = "done" /\ args[p] # None =>
                /\ result[p] # None
                /\ ~result[p].success =>
                      /\ DOMAIN result[p] = {"success", "error"}
                      /\ result[p].error \in Errors)
    /\ [][\A p \in Callers :
            /\ NotFoundBy(p) =>
                  /\ characters[args[p].character_id] = NoRow
                  /\ UNCHANGED <<characters, writes, notifications, clock>>
            /\ (pc[p] = "select" /\ pc'[p] # "select"
                    /\ characters[args[p].character_id] = NoRow) =>
                  /\ pc'[p] = "done" /\ ~result'[p].success
                  /\ UNCHANGED <<characters, writes, notifications, clock>>]_vars

\* C16's case: one call found no character, another lost its character between
\* its select and its update, and the table has no row written by either.
C16_Witness ==
    \E p, q \in Callers :
        /\ Failed(p) /\ result[p].error = "Character not found"
        /\ Failed(q) /\ result[q].error = "Failed to update character"
        /\ args[p] # None /\ args[q] # None
        /\ characters[args[p].character_id] = NoRow
        /\ writes = <<>> /\ notifications = <<>>

\* calculate_xp_reward has returned; it was called with these arguments and
\* this value of the jitter.
IsReward == returned # None /\ "xp" \in DOMAIN returned

RewardOf(action_type, difficulty, success, variation) ==
    /\ IsReward
    /\ returned.action_type = action_type /\ returned.difficulty = difficulty
    /\ returned.success = success /\ returned.variation = variation

\* A thousand times the base, halved (floor) on a failure, times the jitter.
JitteredBase ==
    (IF returned.success THEN returned.base_xp ELSE returned.base_xp \div 2)
        * returned.variation

\* C17: with the jitter at 0.9 the reward is 90 for (combat, easy, success),
\* 360 for (combat, hard, success), 90 for (combat, medium, failure), 1080 for
\* (quest, major, success) and 90 for (unknown_type, medium, success); every
\* reward is a multiple of 5 no further than 2.5 from the base, halved on
\* failure, times the jitter.
C17_RewardValues ==
    /\ RewardOf(combat, easy, TRUE, 900) => returned.xp = 90
    /\ RewardOf(combat, hard, TRUE, 900) => returned.xp = 360
    /\ RewardOf(combat, medium, FALSE, 900) => returned.xp = 90
    /\ RewardOf(quest, major, TRUE, 900) => returned.xp = 1080
    /\ RewardOf(unknown_type, medium, TRUE, 900) => returned.xp = 90
    /\ IsReward =>
          /\ returned.xp % 5 = 0
          /\ 1000 * returned.xp - JitteredBase <= 2500
          /\ JitteredBase - 1000 * returned.xp <= 2500

\* C17's case: the failed medium combat with the jitter at 0.9.
C17_Witness ==
    /\ RewardOf(combat, medium, FALSE, 900)
    /\ returned.base_xp = 200 /\ returned.xp = 90

\* C18: every reward is a multiple of 5 and at least 5.
C18_MultipleOf5AtLeast5 ==
    IsReward => returned.xp % 5 = 0 /\ returned.xp >= 5

\* C18's case: the smallest product, a failure on a base of 50 with the jitter
\* at 0.9 (22.5, between two multiples of 5).
C18_Witness ==
    /\ IsReward /\ ~returned.success
    /\ returned.base_xp = 50 /\ returned.variation = 900
    /\ returned.xp = 20

\* C19: the base is the entry of the lower-cased difficulty in the table of the
\* lower-cased action type; an action type without a table uses the default
\* table (easy 50, medium 100, hard 200, epic 500); a difficulty that the table
\* in use lacks gives 100.
C19_BaseLookup ==
    IsReward =>
        /\ str_lower(returned.action_type) \in DOMAIN XP_REWARD_VALUES =>
              returned.base_xp =
                 IF str_lower(returned.difficulty) \in
                        DOMAIN XP_REWARD_VALUES[str_lower(returned.action_type)]
                 THEN XP_REWARD_VALUES[str_lower(returned.action_type)]
                                      [str_lower(returned.difficulty)]
                 ELSE 100
        /\ str_lower(returned.action_type) \notin DOMAIN XP_REWARD_VALUES =>
              /\ returned.base_xp =
                    IF str_lower(returned.difficulty) \in DOMAIN default_action_rewards
                    THEN default_action_rewards[str_lower(returned.difficulty)]
                    ELSE 100
              /\ str_lower(returned.difficulty) = easy => returned.base_xp = 50
              /\ str_lower(returned.difficulty) = medium => returned.base_xp = 100
              /\ str_lower(returned.difficulty) = hard => returned.base_xp = 200
              /\ str_lower(returned.difficulty) = epic => returned.base_xp = 500

\* C19's case: an action type and a difficulty given in capitals find the
\* entry of combat, hard.
C19_Witness ==
    /\ IsReward
    /\ returned.action_type # str_lower(returned.action_type)
    /\ returned.difficulty # str_lower(returned.difficulty)
    /\ str_lower(returned.action_type) = combat
    /\ returned.base_xp = 400

\* _get_ability_type has returned.
IsClassified == returned # None /\ "ability_type" \in DOMAIN returned

\* No key of the ability table is the normalised id or a substring of it.
MatchesNoKey(ability_id) ==
    \A i \in 1..Len(ability_types) :
        ~str_contains(ability_types[i][1],
                      str_replace(str_lower(ability_id), " ", "_"))

\* C20: the classifier returns passive, active or special; power_strike is
\* active, improved_critical passive, berserker_rage special, arcane_recovery
\* passive; an id (lower-cased, spaces as underscores) that no table key equals
\* or is a substring of is active.
C20_ClassifierTotal ==
    IsClassified =>
        /\ returned.ability_type \in {"passive", "active", "special"}
        /\ returned.ability_id = power_strike => returned.ability_type = "active"
        /\ returned.ability_id = improved_critical => returned.ability_type = "passive"
        /\ returned.ability_id = berserker_rage => returned.ability_type = "special"
        /\ returned.ability_id = arcane_recovery => returned.ability_type = "passive"
        /\ MatchesNoKey(returned.ability_id) => returned.ability_type = "active"

\* C20's case: an id that matches no key has been classified.
C20_Witness ==
    /\ IsClassified
    /\ returned.ability_id = totally_unknown_ability
    /\ MatchesNoKey(returned.ability_id)
    /\ returned.ability_type = "active"

\* The id _get_ability_type was given, lower-cased and with "_" for " ".
Normalized == str_replace(str_lower(returned.ability_id), " ", "_")

\* The keys of ability_types, by position, that are substrings of the id.
KeysIn(id) == {i \in 1..Len(ability_types) : str_contains(ability_types[i][1], id)}

\* C21: the classifier works on the id lower-cased with spaces as underscores;
\* when that is a key of the table the key's category is returned (Arcane
\* Mastery is special though it holds the passive key mastery); otherwise the
\* category is that of the first key, in the table's order, that is a substring
\* of it (Sword Mastery holds mastery and master and is passive, as mastery
\* comes first; Battle Cry Mastery is active, as battle_cry comes before both).
C21_ExactThenFirstSubstring ==
    IsClassified =>
        /\ \A i \in 1..Len(ability_types) :
              ability_types[i][1] = Normalized =>
                  returned.ability_type = ability_types[i][2]
        /\ (\A i \in 1..Len(ability_types) : ability_types[i][1] # Normalized) =>
              \A i \in KeysIn(Normalized) :
                  (\A j \in KeysIn(Normalized) : i <= j) =>
                      returned.ability_type = ability_types[i][2]
        /\ returned.ability_id = arcane_mastery => returned.ability_type = "special"
        /\ returned.ability_id = sword_mastery => returned.ability_type = "passive"
        /\ returned.ability_id = battle_cry_mastery => returned.ability_type = "active"

\* C21's case: an id that is no key and holds both mastery (passive, 19th) and
\* master (special, 29th) has been classified as passive.
C21_Witness ==
    /\ IsClassified
    /\ returned.ability_id = sword_mastery
    /\ \A i \in 1..Len(ability_types) : ability_types[i][1] # Normalized
    /\ KeysIn(Normalized) = {19, 29}
    /\ ability_types[19][2] = "passive" /\ ability_types[29][2] = "special"
    /\ returned.ability_type = "passive"

\* The user may not update the character stored under that id: the row exists,
\* and the user is neither its owner nor an admin.
Stranger(character_id, current_user) ==
    /\ characters[character_id] # NoRow
    /\ characters[character_id].created_by # current_user.id
    /\ current_user.role # "admin"

\* The request ends with that status: add_experience is not entered (the
\* caller holds no arguments of a call) and no row changes.
RejectedWith(status) ==
    /\ response'["http"] = status
    /\ pc'["http"] = "done"
    /\ args'["http"] = None
    /\ result'["http"] = None
    /\ characters' = characters
    /\ writes' = writes
    /\ notifications' = notifications

\* C22: a request to either endpoint by a user who is neither the owner of the
\* character nor an admin ends with 403, without a call of add_experience and
\* with the table unchanged; a request for an id without a row ends with 404,
\* whoever sends it and whatever its body holds.
C22_StrangersRejected ==
    [][\A character_id \in CharacterIds, current_user \in Users :
          /\ \A xp_amount \in Amounts :
                add_character_experience(character_id, xp_amount, current_user) =>
                    /\ Stranger(character_id, current_user) => RejectedWith(403)
                    /\ characters[character_id] = NoRow => RejectedWith(404)
          /\ \A reward_data \in RewardRequests :
                add_action_reward(character_id, reward_data, current_user) =>
                    /\ Stranger(character_id, current_user) => RejectedWith(403)
                    /\ characters[character_id] = NoRow => RejectedWith(404)]_vars

\* C22's case: the only request made so far was answered with 403; no call of
\* add_experience was made and the druid's row is as it was.
C22_Witness ==
    /\ started = 1
    /\ response["http"] = 403
    /\ pc = [p \in Callers |-> IF p = "http" THEN "done" ELSE "idle"]
    /\ args["http"] = None
    /\ characters[2] = Radagast
    /\ writes = <<>>

\* The table levels whose threshold is <= xp.
LevelsWithin(xp) == {l \in DOMAIN LEVEL_XP_REQUIREMENTS : LEVEL_XP_REQUIREMENTS[l] <= xp}

\* C23: when the calls are made one after the other, the level stored for a
\* character is always the highest table level whose threshold is <= its stored
\* experience (as it is for every character before the first call).
C23_LevelMatchesExperience ==
    \A c \in CharacterIds :
        characters[c] # NoRow =>
            /\ characters[c].level \in LevelsWithin(characters[c].experience)
            /\ \A l \in LevelsWithin(characters[c].experience) : l <= characters[c].level

\* C24: in a successful call each level-up record's snapshot is the state right
\* after its own level: its stats are those it started from plus its own stat
\* changes, and its ability lists hold the abilities the call read plus those
\* the records up to it added, none that a later level of the call added.
C24_RecordsAreSnapshots ==
    \A p \in Callers :
        Succeeded(p) /\ result[p].level_ups # None =>
            \A i \in 1..Len(result[p].level_ups.items) :
                /\ \A s \in DOMAIN result[p].level_ups.items[i].new_stats :
                      result[p].level_ups.items[i].new_stats[s] =
                         IF s \in DOMAIN result[p].level_ups.items[i].stat_changes
                         THEN result[p].level_ups.items[i].stat_changes[s].new
                         ELSE StatsBefore(p, i)[s]
                /\ Total(result[p].level_ups.items[i].new_abilities) =
                      Total(AbilitiesBefore(character[p].abilities)) +
                      Recorded(SubSeq(result[p].level_ups.items, 1, i))

\* _process_level_up has returned.
IsLevelUp == returned # None /\ "level_up_data" \in DOMAIN returned

\* C25: _process_level_up leaves the stats map and the passive, active and
\* special lists its caller passed in as they were before the call.
C25_ArgumentsUnchanged ==
    IsLevelUp =>
        /\ returned.stats_after = returned.stats
        /\ returned.abilities_after = returned.abilities

\* The step ends caller p's call of add_experience with a failure result.
FailureBy(p) ==
    /\ pc[p] \in {"select", "update"} /\ pc'[p] = "done"
    /\ result'[p] # None
    /\ ~result'[p].success

C27_NotificationsOnlyAfterUpdate ==
    /\ [][\A p \in Callers : FailureBy(p) => notifications' = notifications]_vars
    /\ [][notifications' # notifications =>
            \E p \in Callers :
                /\ UpdateBy(p)
                /\ writes' = Append(writes, args[p].character_id)
                /\ characters'[args[p].character_id] = result'[p].character
                /\ characters'[args[p].character_id].level = work[p].new_level]_vars

\* C27's case: a call that had resolved a level for a character with an owner
\* failed because its update gave no row; no notification has been sent.
C27_Witness ==
    \E p \in Callers :
        /\ Failed(p)
        /\ result[p].error = "Failed to update character"
        /\ work[p] # None
        /\ work[p].level_ups # <<>>
        /\ character[p].created_by # ""
        /\ notifications = <<>>

\* C28: whatever the calls and however they overlap, no two of the level-up
\* notifications sent are for the same character and the same level.
C28_OneNotificationPerLevel ==
    \A i, j \in 1..Len(notifications) :
        /\ notifications[i].character_id = notifications[j].character_id
        /\ notifications[i].level = notifications[j].level
        => i = j

\* The default stat block of the specification.
FixedDefaultBlock ==
    [strength |-> 10, dexterity |-> 10, constitution |-> 10, intelligence |-> 10,
     wisdom |-> 10, charisma |-> 10, health |-> 100, mana |-> 100]

\* The stats bonus of the Class Bonus Table for the class (lower-cased) and level.
StatBonus(character_class, level, stat) ==
    Get(Get(LevelBonuses(str_lower(character_class), level), "stats", EmptyDict),
        stat, 0)

\* The first level-up record of caller p's result is `start` plus the bonuses
\* of its level, stat by stat.
FirstRecordFrom(p, start) ==
    /\ DOMAIN result[p].level_ups.items[1].new_stats = DOMAIN start
    /\ \A s \in DOMAIN start :
          result[p].level_ups.items[1].new_stats[s] =
              start[s] + StatBonus(character[p].character_class,
                                   result[p].level_ups.items[1].level, s)

\* C29: in a successful call that processed a level-up, a character read with
\* an empty stats map gets the bonuses on top of the fixed default block, and
\* one read with stats gets them on top of its own stats; a character read with
\* an empty abilities value gets passive, active and special lists that hold
\* the abilities the call recorded and no others, and one read with abilities
\* keeps its lists, extended; the row stored holds the stats of the last record
\* and these lists.
C29_Bootstrap ==
    \A p \in Callers :
        Succeeded(p) /\ result[p].level_ups # None =>
            /\ FirstRecordFrom(p, IF DOMAIN character[p].stats = {}
                                  THEN FixedDefaultBlock ELSE character[p].stats)
            /\ result[p].character.stats =
                  result[p].level_ups.items[Len(result[p].level_ups.items)].new_stats
            /\ IF DOMAIN character[p].abilities = {}
               THEN /\ DOMAIN result[p].character.abilities =
                          {"passive", "active", "special"}
                    /\ Total(result[p].character.abilities) =
                          Recorded(result[p].level_ups.items)
               ELSE /\ DOMAIN result[p].character.abilities =
                          DOMAIN character[p].abilities
                    /\ \A k \in DOMAIN character[p].abilities :
                          IsPrefix(character[p].abilities[k],
                                   result[p].character.abilities[k])

\* C29's case: the wizard read with no stats and no abilities reached level 2;
\* the row stored has intelligence 11, the other defaults, and the one ability
\* of that level.
C29_Witness ==
    \E p \in Callers :
        /\ Succeeded(p) /\ result[p].level_ups # None
        /\ DOMAIN character[p].stats = {} /\ DOMAIN character[p].abilities = {}
        /\ result[p].new_level = 2
        /\ characters[args[p].character_id] = result[p].character
        /\ characters[args[p].character_id].stats =
              [FixedDefaultBlock EXCEPT !.intelligence = 11]
        /\ Total(characters[args[p].character_id].abilities) = 1

\* The stats the Class Bonus Table raises for the class at the level.
BonusStats(character_class, level) ==
    DOMAIN Get(LevelBonuses(str_lower(character_class), level), "stats", EmptyDict)

\* C30: _process_level_up called with a non-empty stats map returns a record for
\* the level whose new_stats has the keys of that map and no others, each with
\* its bonus added, and whose stat_changes are for the bonus stats that are
\* keys of the map only: a bonus for a missing stat adds no key and no change.
C30_MissingStatSkipped ==
    IsLevelUp /\ DOMAIN returned.stats # {} =>
        /\ returned.level_up_data.level = returned.new_level
        /\ DOMAIN returned.level_up_data.new_stats = DOMAIN returned.stats
        /\ \A s \in DOMAIN returned.stats :
              returned.level_up_data.new_stats[s] =
                  returned.stats[s] +
                  StatBonus(returned.character_class, returned.new_level, s)
        /\ DOMAIN returned.level_up_data.stat_changes =
              DOMAIN returned.stats \cap
              BonusStats(returned.character_class, returned.new_level)

\* C30's case: a warrior whose stats map holds strength only was levelled to 5,
\* whose bonus raises dexterity and strength; the record has strength 16, no
\* dexterity, and a stat change for strength only.
C30_Witness ==
    /\ IsLevelUp
    /\ returned.stats = "strength" :> 15
    /\ returned.character_class = warrior /\ returned.new_level = 5
    /\ BonusStats(warrior, 5) = {"dexterity", "strength"}
    /\ returned.level_up_data.new_stats = "strength" :> 16
    /\ DOMAIN returned.level_up_data.stat_changes = {"strength"}
    /\ returned.level_up_data.level = 5

====
